---- MODULE Spec2Model ----
(***************************************************************************)
(* World Cup 2026 simulator: the simulation engine (src/simulation.py) and *)
(* the bracket data and third-place slot assignment (src/data.py).         *)
(***************************************************************************)
EXTENDS Integers, Sequences, FiniteSets, TLC

VARIABLES
    qualifying_groups,   \* argument of assign_third_place_teams (a list)
    assign_pc,           \* "call" before the call, "returned" after it
    assign_result,       \* the dict the call returned (slot id -> group)
    assign_path,         \* which return statement produced it
    assign_undone,       \* how many tentative choices the search took back
    team_a_data,         \* arguments of simulate_match
    team_b_data,
    allow_draw,
    match_pc,            \* "call" before simulate_match, "returned" after it
    match_result,        \* the MatchResult it returned
    shootout,            \* the locals of _simulate_penalties, round by round
    teams,               \* arguments of simulate_group_stage, simulate_tournament
    groups,              \*   and run_monte_carlo
    locked_results,
    group_pc,            \* "call" before simulate_group_stage, "returned" after it
    all_tables,          \* the tables and matches it returned
    all_matches,
    hash_seed,           \* the string hash seed of the running interpreter
    random_state,        \* state of the random module's generator
    seed,                \* the seed every execution of a tournament starts from
    tour_pc,             \* "call", "returned", "restarted", "done"
    executions,          \* what each execution of simulate_tournament returned
    mc_n,                \* argument n of run_monte_carlo
    runs,                \* iterations of its loop completed so far
    counts,              \* its locals
    win_counts,
    final_matchups,      \*   (a dict in insertion order: <<pair, count>> items)
    mc_pc,               \* "loop", "returned", "raised"
    most_likely_final,
    most_likely_final_pct, \* in tenths of a percent
    third_tables,        \* argument of get_best_third_place (with teams)
    third_pc,            \* "call" before get_best_third_place, "returned" after it
    best_third           \* the list it returned

assign_vars == <<qualifying_groups, assign_pc, assign_result, assign_path, assign_undone>>

match_vars == <<team_a_data, team_b_data, allow_draw, match_pc, match_result, shootout>>

input_vars == <<teams, groups, locked_results>>

group_vars == <<group_pc, all_tables, all_matches>>

process_vars == <<hash_seed>>

random_vars == <<random_state>>

tour_vars == <<seed, tour_pc, executions>>

mc_vars == <<mc_n, runs, counts, win_counts, final_matchups, mc_pc, most_likely_final,
            most_likely_final_pct>>

third_vars == <<third_tables, third_pc, best_third>>

vars == <<assign_vars, match_vars, input_vars, group_vars, process_vars, random_vars,
          tour_vars, mc_vars, third_vars>>

----------------------------------------------------------------------------
(* data.py: groups and the third-place eligibility table *)

\* the keys of GROUPS, in ascending (alphabetical) order
GroupLetters == <<"A", "B", "C", "D", "E", "F", "G", "H", "I", "J", "K", "L">>

Range(s) == {s[i] : i \in DOMAIN s}

Letters == Range(GroupLetters)

\* position of a one-letter string in the alphabet: Python's string order
Ord(g) == CHOOSE i \in DOMAIN GroupLetters : GroupLetters[i] = g

\* variant in which the slot of match 74, played by the winner of group E,
\* also takes the third of group E
THIRD_PLACE_SLOTS_with_own_group ==
    (74 :> {"A", "B", "C", "D", "E", "F"}) @@
    (77 :> {"C", "D", "F", "G", "H"}) @@
    (79 :> {"C", "E", "F", "H", "I"}) @@
    (80 :> {"E", "H", "I", "J", "K"}) @@
    (81 :> {"B", "E", "F", "I", "J"}) @@
    (82 :> {"A", "E", "H", "I", "J"}) @@
    (85 :> {"E", "F", "G", "I", "J"}) @@
    (87 :> {"D", "E", "I", "J", "L"})

THIRD_PLACE_SLOTS ==
    (74 :> {"A", "B", "C", "D", "F"}) @@
    (77 :> {"C", "D", "F", "G", "H"}) @@
    (79 :> {"C", "E", "F", "H", "I"}) @@
    (80 :> {"E", "H", "I", "J", "K"}) @@
    (81 :> {"B", "E", "F", "I", "J"}) @@
    (82 :> {"A", "E", "H", "I", "J"}) @@
    (85 :> {"E", "F", "G", "I", "J"}) @@
    (87 :> {"D", "E", "I", "J", "L"})

\* sorted() of a set of integers
RECURSIVE SortedInts(_)
SortedInts(S) ==
    IF S = {} THEN <<>>
    ELSE LET m == CHOOSE x \in S : \A y \in S : x <= y
         IN <<m>> \o SortedInts(S \ {m})

\* sorted() of a set of group letters
RECURSIVE SortedLetters(_)
SortedLetters(S) ==
    IF S = {} THEN <<>>
    ELSE LET m == CHOOSE x \in S : \A y \in S : Ord(x) <= Ord(y)
         IN <<m>> \o SortedLetters(S \ {m})

\* Iterating over a set of strings visits them in the order of their hashes,
\* which the interpreter salts with a seed drawn when the process starts.
MaxHashSeed == 1

HashSeeds == 0..MaxHashSeed

HashMod == 13

str_hash(g) == (Ord(g) * (hash_seed + 1)) % HashMod

RECURSIVE set_iteration(_)
set_iteration(S) ==
    IF S = {} THEN <<>>
    ELSE LET m == CHOOSE x \in S : \A y \in S : str_hash(x) <= str_hash(y)
         IN <<m>> \o set_iteration(S \ {m})

RECURSIVE insert_letter(_, _)
insert_letter(l, g) ==
    IF l = <<>> THEN <<g>>
    ELSE IF Ord(g) < Ord(Head(l)) THEN <<g>> \o l
    ELSE <<Head(l)>> \o insert_letter(Tail(l), g)

RECURSIVE insertion_sort(_, _)
insertion_sort(done, todo) ==
    IF todo = <<>> THEN done
    ELSE insertion_sort(insert_letter(done, Head(todo)), Tail(todo))

\* variant of sorted() that returns the items in the order it was given them
sorted_left_unsorted(l) == l

\* sorted() of an iterable of group letters, given as the list of its items
\* in iteration order
sorted(l) == insertion_sort(<<>>, l)

\* slots = sorted(THIRD_PLACE_SLOTS.keys())
slots == SortedInts(DOMAIN THIRD_PLACE_SLOTS)

\* d[k] = v on a dict
DictSet(d, k, v) == (k :> v) @@ d

\* del d[k]
DictDel(d, k) == [x \in (DOMAIN d) \ {k} |-> d[x]]

EmptyDict == [x \in {} |-> 0]

\* list.remove(x): drops the first occurrence
RECURSIVE ListRemove(_, _)
ListRemove(l, x) ==
    IF l = <<>> THEN <<>>
    ELSE IF Head(l) = x THEN Tail(l)
    ELSE <<Head(l)>> \o ListRemove(Tail(l), x)

(* backtrack(idx) works on the closure variables assignment and remaining;  *)
(* the operator threads both through the recursion and returns them with    *)
(* the boolean.  Sequences are 1-based: idx = Len(slots) + 1 is the code's  *)
(* idx == len(slots).                                                       *)
RECURSIVE backtrack(_, _, _)
RECURSIVE backtrack_loop(_, _, _, _)

\* undone counts the executions of "del assignment[slot]" (observation only)
backtrack(idx, assignment, remaining) ==
    IF idx = Len(slots) + 1
    THEN [ok |-> remaining = {}, assignment |-> assignment, remaining |-> remaining,
          undone |-> 0]
    ELSE backtrack_loop(idx, sorted(set_iteration(THIRD_PLACE_SLOTS[slots[idx]] \cap remaining)),
                        assignment, remaining)

\* variant of the loop that gives up at the first dead end ("return False"
\* indented into the for loop)
backtrack_loop_no_retry(idx, cands, assignment, remaining) ==
    IF cands = <<>>
    THEN [ok |-> FALSE, assignment |-> assignment, remaining |-> remaining, undone |-> 0]
    ELSE LET slot == slots[idx]
             group == Head(cands)
             r == backtrack(idx + 1, DictSet(assignment, slot, group), remaining \ {group})
         IN IF r.ok THEN r
            ELSE [ok |-> FALSE, assignment |-> DictDel(r.assignment, slot),
                  remaining |-> r.remaining \cup {group}, undone |-> r.undone + 1]

\* variant of the loop without "remaining.add(group)" on a dead end
backtrack_loop_group_not_returned(idx, cands, assignment, remaining) ==
    IF cands = <<>>
    THEN [ok |-> FALSE, assignment |-> assignment, remaining |-> remaining, undone |-> 0]
    ELSE LET slot == slots[idx]
             group == Head(cands)
             r == backtrack(idx + 1, DictSet(assignment, slot, group), remaining \ {group})
         IN IF r.ok THEN r
            ELSE LET rest == backtrack_loop(idx, Tail(cands),
                                            DictDel(r.assignment, slot), r.remaining)
                 IN [rest EXCEPT !.undone = @ + r.undone + 1]

\* the for loop of backtrack over the candidates not yet tried
backtrack_loop(idx, cands, assignment, remaining) ==
    IF cands = <<>>
    THEN [ok |-> FALSE, assignment |-> assignment, remaining |-> remaining, undone |-> 0]
    ELSE LET slot == slots[idx]
             group == Head(cands)
             r == backtrack(idx + 1, DictSet(assignment, slot, group), remaining \ {group})
         IN IF r.ok THEN r
            ELSE LET rest == backtrack_loop(idx, Tail(cands),
                                            DictDel(r.assignment, slot),
                                            r.remaining \cup {group})
                 IN [rest EXCEPT !.undone = @ + r.undone + 1]

\* the greedy fallback: for slot in slots: for g in remaining: ...
RECURSIVE FirstEligible(_, _)
FirstEligible(remaining, slot) ==
    IF remaining = <<>> THEN "none"
    ELSE IF Head(remaining) \in THIRD_PLACE_SLOTS[slot] THEN Head(remaining)
    ELSE FirstEligible(Tail(remaining), slot)

RECURSIVE greedy(_, _, _)
greedy(idx, result, remaining) ==
    IF idx = Len(slots) + 1 THEN result
    ELSE LET slot == slots[idx]
             g == FirstEligible(remaining, slot)
         IN IF g = "none" THEN greedy(idx + 1, result, remaining)
            ELSE greedy(idx + 1, DictSet(result, slot, g), ListRemove(remaining, g))

\* assign_third_place_teams: the returned dict and the return statement taken
assign_third_place_teams(qualifying) ==
    LET r == backtrack(1, EmptyDict, Range(qualifying))
    IN IF r.ok
       THEN [mapping |-> r.assignment, path |-> "backtrack", undone |-> r.undone]
       ELSE [mapping |-> greedy(1, EmptyDict, qualifying), path |-> "fallback",
             undone |-> r.undone]

----------------------------------------------------------------------------
(* simulation.py: the match engine.                                        *)
(* Ratings (attack, defense, form) and expected goals are kept in          *)
(* hundredths; a value returned by random.random() is kept as an integer x *)
(* in 0..RandMod-1 standing for x / RandMod.  A MatchResult keeps the      *)
(* fields the results depend on: scorer and assist names, xg, possession   *)
(* and commentary are left out.                                            *)

\* resolution of a random.random() value
RandMod == 65536

Max(a, b) == IF a >= b THEN a ELSE b

Min(a, b) == IF a <= b THEN a ELSE b

\* winner: str | None = None
None == "None"

\* lambda = 1.35 * (att / 1.40) * (1.40 / def) * (0.85 + 0.30 * form), clamped
\* to [0.3, 4.0]
expected_lambda(att, def, form) ==
    Max(30, Min(400, (135 * att * (8500 + 30 * form)) \div (def * 10000)))

\* team.get(key, default)
Get(team, key, default) == IF key \in DOMAIN team THEN team[key] ELSE default

calculate_expected_goals(team_a, team_b) ==
    [lambda_a |-> expected_lambda(team_a.attack, team_b.defense, Get(team_a, "form", 50)),
     lambda_b |-> expected_lambda(team_b.attack, team_a.defense, Get(team_b, "form", 50))]

\* random.randint(start, end) from the draw x
randint(start, end, x) == start + (x * (end - start + 1)) \div RandMod

\* int(lam * random.uniform(3.5, 5.5)) from the draw x
shots_estimate(lam, x) == (lam * (35 * RandMod + 20 * x)) \div (1000 * RandMod)

\* int(shots * random.uniform(0.3, 0.5)) from the draw x
on_target_estimate(shots, x) == (shots * (3 * RandMod + 2 * x)) \div (10 * RandMod)

\* comparison of two key tuples of the same length, as Python compares tuples
RECURSIVE TupleLess(_, _)
TupleLess(k1, k2) ==
    IF k1 = <<>> THEN FALSE
    ELSE IF Head(k1) # Head(k2) THEN Head(k1) < Head(k2)
    ELSE TupleLess(Tail(k1), Tail(k2))

(* list.sort(key=...) and sorted(key=...): a stable sort.  The operators    *)
(* sort a list of [key, val] records, key being the tuple the key function  *)
(* returns; elements with equal keys keep their order, also under           *)
(* reverse=True.                                                            *)

\* the element at index i of l is placed before the one at index j
Before(l, i, j, reverse) ==
    \/ IF reverse THEN TupleLess(l[j].key, l[i].key) ELSE TupleLess(l[i].key, l[j].key)
    \/ l[i].key = l[j].key /\ i < j

\* where the element at index i of l ends up
Position(l, i, reverse) == 1 + Cardinality({j \in DOMAIN l : Before(l, j, i, reverse)})

SortKeyed(l, reverse) ==
    [p \in 1..Len(l) |-> l[CHOOSE i \in DOMAIN l : Position(l, i, reverse) = p]]

Values(keyed) == [i \in 1..Len(keyed) |-> keyed[i].val]

\* sorted(minutes)
SortedMinutes(minutes) ==
    Values(SortKeyed([i \in 1..Len(minutes) |-> [key |-> <<minutes[i]>>, val |-> minutes[i]]],
                     FALSE))

\* all_goals.sort(key=lambda g: g.minute)
SortGoals(all_goals) ==
    Values(SortKeyed([i \in 1..Len(all_goals) |->
                         [key |-> <<all_goals[i].minute>>, val |-> all_goals[i]]],
                     FALSE))

\* the GoalEvents appended for one team, one per minute
GoalEvents(minutes, code) ==
    [i \in 1..Len(minutes) |-> [minute |-> minutes[i], team |-> code]]

\* simulate_match up to the construction of the MatchResult (lines 193-251):
\* goals_a, goals_b are the Poisson samples, minutes_a, minutes_b the sorted
\* goal minutes, us the four draws of the shot statistics
regulation_result(ta, tb, goals_a, goals_b, minutes_a, minutes_b, us) ==
    LET lam == calculate_expected_goals(ta, tb)
        all_goals == SortGoals(GoalEvents(minutes_a, ta.code) \o GoalEvents(minutes_b, tb.code))
        shots_a == Max(goals_a, shots_estimate(lam.lambda_a, us[1]))
        shots_b == Max(goals_b, shots_estimate(lam.lambda_b, us[2]))
        sot_a == Max(goals_a, on_target_estimate(shots_a, us[3]))
        sot_b == Max(goals_b, on_target_estimate(shots_b, us[4]))
    IN [team_a |-> ta.code, team_b |-> tb.code,
        score_a |-> goals_a, score_b |-> goals_b,
        goals |-> all_goals,
        extra_time |-> FALSE, et_score_a |-> 0, et_score_b |-> 0,
        penalty_score_a |-> 0, penalty_score_b |-> 0, penalties |-> FALSE,
        winner |-> None,
        shots_a |-> shots_a, shots_b |-> shots_b,
        shots_on_target_a |-> sot_a, shots_on_target_b |-> sot_b]

\* variant of the condition of line 254 with the flag taken the wrong way round
goes_to_extra_time_if_draw_allowed(result, draw_allowed) ==
    draw_allowed /\ result.score_a = result.score_b

\* the condition of line 254
goes_to_extra_time(result, draw_allowed) ==
    ~draw_allowed /\ result.score_a = result.score_b

\* the else branch of lines 295-301
decide_regulation(result) ==
    [result EXCEPT !.winner = IF result.score_a > result.score_b THEN result.team_a
                              ELSE IF result.score_b > result.score_a THEN result.team_b
                              ELSE None]

\* variant that sends every match that went to extra time to the shootout
extra_time_result_always_penalties(result, et_goals_a, et_goals_b, et_minutes_a, et_minutes_b) ==
    LET all_goals == SortGoals(result.goals \o GoalEvents(et_minutes_a, result.team_a)
                                            \o GoalEvents(et_minutes_b, result.team_b))
    IN [result EXCEPT !.extra_time = TRUE,
                      !.et_score_a = et_goals_a,
                      !.et_score_b = et_goals_b,
                      !.goals = all_goals,
                      !.penalties = TRUE,
                      !.winner = None]

\* lines 255-288 and 293-294: extra time; a level aggregate leaves the winner
\* to the shootout and sets penalties
extra_time_result(result, et_goals_a, et_goals_b, et_minutes_a, et_minutes_b) ==
    LET all_goals == SortGoals(result.goals \o GoalEvents(et_minutes_a, result.team_a)
                                            \o GoalEvents(et_minutes_b, result.team_b))
        total_a == result.score_a + et_goals_a
        total_b == result.score_b + et_goals_b
    IN [result EXCEPT !.extra_time = TRUE,
                      !.et_score_a = et_goals_a,
                      !.et_score_b = et_goals_b,
                      !.goals = all_goals,
                      !.penalties = (total_a = total_b),
                      !.winner = IF total_a = total_b THEN None
                                 ELSE IF total_a > total_b THEN result.team_a
                                 ELSE result.team_b]

\* lines 289-292
penalties_result(result, pen_a, pen_b) ==
    [result EXCEPT !.penalty_score_a = pen_a,
                   !.penalty_score_b = pen_b,
                   !.winner = IF pen_a > pen_b THEN result.team_a ELSE result.team_b]

(* _simulate_penalties.  The state of the shootout is the loop index i (the *)
(* number of rounds taken), the two scores and the phase.                   *)

\* conversion rate 0.70 + 0.05 * min(attack, 2.0), in 1/10000
penalty_rate(team) == 7000 + 5 * Min(Get(team, "attack", 100), 200)

\* random.random() < rate
kick_scores(x, rate) == x * 10000 < rate * RandMod

penalty_start == [i |-> 0, score_a |-> 0, score_b |-> 0, phase |-> "best_of_5"]

\* variant with remaining = 5 - i
penalty_round_remaining_five(st, scored_a, scored_b) ==
    LET score_a == st.score_a + (IF scored_a THEN 1 ELSE 0)
        score_b == st.score_b + (IF scored_b THEN 1 ELSE 0)
        remaining == 5 - st.i
        stop == score_a > score_b + remaining \/ score_b > score_a + remaining
    IN [i |-> st.i + 1, score_a |-> score_a, score_b |-> score_b,
        phase |-> IF stop THEN "done"
                  ELSE IF st.i < 4 THEN "best_of_5"
                  ELSE IF score_a = score_b THEN "sudden_death"
                  ELSE "done"]

\* one iteration of "for i in range(5)": a kick per side, then the early stop
penalty_round(st, scored_a, scored_b) ==
    LET score_a == st.score_a + (IF scored_a THEN 1 ELSE 0)
        score_b == st.score_b + (IF scored_b THEN 1 ELSE 0)
        remaining == 4 - st.i
        stop == score_a > score_b + remaining \/ score_b > score_a + remaining
    IN [i |-> st.i + 1, score_a |-> score_a, score_b |-> score_b,
        phase |-> IF stop THEN "done"
                  ELSE IF st.i < 4 THEN "best_of_5"
                  ELSE IF score_a = score_b THEN "sudden_death"
                  ELSE "done"]

\* variant that ends the shootout after one pair of sudden death
sudden_death_round_single_pair(st, scored_a, scored_b) ==
    [i |-> st.i + 1,
     score_a |-> st.score_a + (IF scored_a THEN 1 ELSE 0),
     score_b |-> st.score_b + (IF scored_b THEN 1 ELSE 0),
     phase |-> "done"]

\* variant that goes on until one side is two kicks ahead
sudden_death_round_two_clear(st, scored_a, scored_b) ==
    LET score_a == st.score_a + (IF scored_a THEN 1 ELSE 0)
        score_b == st.score_b + (IF scored_b THEN 1 ELSE 0)
    IN [i |-> st.i + 1, score_a |-> score_a, score_b |-> score_b,
        phase |-> IF score_a > score_b + 1 \/ score_b > score_a + 1
                  THEN "done" ELSE "sudden_death"]

\* one iteration of "while score_a == score_b"
sudden_death_round(st, scored_a, scored_b) ==
    LET score_a == st.score_a + (IF scored_a THEN 1 ELSE 0)
        score_b == st.score_b + (IF scored_b THEN 1 ELSE 0)
    IN [i |-> st.i + 1, score_a |-> score_a, score_b |-> score_b,
        phase |-> IF score_a # score_b THEN "done" ELSE "sudden_death"]

shootout_round(st, scored_a, scored_b) ==
    IF st.phase = "best_of_5" THEN penalty_round(st, scored_a, scored_b)
    ELSE sudden_death_round(st, scored_a, scored_b)

\* largest number of sudden-death rounds followed
MaxSuddenDeath == 2

\* the (score_a, score_b) pairs _simulate_penalties can return, every kick
\* being free to score or miss
RECURSIVE PenaltyFinals(_)
PenaltyFinals(st) ==
    IF st.phase = "done" THEN {<<st.score_a, st.score_b>>}
    ELSE IF st.i >= 5 + MaxSuddenDeath THEN {}
    ELSE UNION {PenaltyFinals(shootout_round(st, ka, kb)) : ka \in BOOLEAN, kb \in BOOLEAN}

PenaltyOutcomes == PenaltyFinals(penalty_start)

----------------------------------------------------------------------------
(* The random module.  A whole tournament draws thousands of numbers, so   *)
(* the tournament-level operators take them from a seeded generator: the   *)
(* generator state rng is an integer in 0..RandMod-1, each call of         *)
(* random.random() steps it and returns the new state x, read as           *)
(* x / RandMod.  Each operator below returns the advanced state with its   *)
(* value.                                                                  *)

RandMult == 25173

RandIncr == 13849

NextRng(rng) == (RandMult * rng + RandIncr) % RandMod

\* fixed-point unit of the products of _sample_poisson
FixedOne == 32768

\* exp(-1), exp(-0.1) and exp(-0.01) in units of 1 / FixedOne
ExpNegOne == 12055

ExpNegTenth == 29650

ExpNegHundredth == 32442

\* base ** n in fixed point
RECURSIVE FixedPow(_, _)
FixedPow(base, n) ==
    IF n = 0 THEN FixedOne ELSE (FixedPow(base, n - 1) * base) \div FixedOne

\* math.exp(-lam) for lam in hundredths, in units of 1 / FixedOne
ExpNeg(lam) ==
    (((FixedPow(ExpNegOne, lam \div 100) * FixedPow(ExpNegTenth, (lam \div 10) % 10))
         \div FixedOne) * FixedPow(ExpNegHundredth, lam % 10)) \div FixedOne

\* the while loop of _sample_poisson: k += 1; p *= random.random();
\* if p < L: return k - 1.  The record st holds k, p and the generator state.
RECURSIVE poisson_loop(_, _)
poisson_loop(L, st) ==
    LET x == NextRng(st.rng)
        p1 == (st.p * x) \div RandMod
    IN IF p1 < L THEN [value |-> st.k, rng |-> x]
       ELSE poisson_loop(L, [k |-> st.k + 1, p |-> p1, rng |-> x])

_sample_poisson(lam, rng) == poisson_loop(ExpNeg(lam), [k |-> 0, p |-> FixedOne, rng |-> rng])

\* [random.randint(start, end) for _ in range(n_goals)]: the record st holds
\* the number of items still to draw, the list so far and the generator state
RECURSIVE randint_loop(_, _, _)
randint_loop(start, end, st) ==
    IF st.left = 0 THEN [value |-> st.value, rng |-> st.rng]
    ELSE randint_loop(start, end,
                      [left |-> st.left - 1,
                       value |-> Append(st.value, randint(start, end, NextRng(st.rng))),
                       rng |-> NextRng(st.rng)])

randint_list(n, start, end, rng) ==
    randint_loop(start, end, [left |-> n, value |-> <<>>, rng |-> rng])

_generate_goal_minutes(n_goals, start, end, rng) ==
    LET l == randint_list(n_goals, start, end, rng)
    IN [value |-> SortedMinutes(l.value), rng |-> l.rng]

\* _pick_scorer and _pick_assist for one goal of a team with at least two
\* players: random.choices draws once, _pick_assist draws once and, when that
\* draw is not above 0.60, random.choice draws once more.  The names are not
\* kept; the value is the generator state afterwards.
pick_scorer_and_assist(rng) ==
    LET x1 == NextRng(rng)
        x2 == NextRng(x1)
    IN IF x2 * 100 > 60 * RandMod THEN x2 ELSE NextRng(x2)

\* the scorers and assists of the goals of one team: the record st holds the
\* number of goals still to attribute and the generator state
RECURSIVE pick_scorers_loop(_)
pick_scorers_loop(st) ==
    IF st.left = 0 THEN st.rng
    ELSE pick_scorers_loop([left |-> st.left - 1, rng |-> pick_scorer_and_assist(st.rng)])

pick_scorers(n, rng) == pick_scorers_loop([left |-> n, rng |-> rng])

\* the four draws of lines 233-236
four_draws(rng) ==
    LET x1 == NextRng(rng)
        x2 == NextRng(x1)
        x3 == NextRng(x2)
        x4 == NextRng(x3)
    IN [value |-> <<x1, x2, x3, x4>>, rng |-> x4]

\* largest number of shootout rounds followed for a seeded shootout
MaxShootoutRounds == 40

\* _simulate_penalties on the seeded generator; ok is false when the shootout
\* is still level after MaxShootoutRounds rounds
RECURSIVE shootout_loop(_, _, _, _)
shootout_loop(st, rate_a, rate_b, rng) ==
    IF st.phase = "done"
    THEN [score_a |-> st.score_a, score_b |-> st.score_b, rng |-> rng, ok |-> TRUE]
    ELSE IF st.i >= MaxShootoutRounds
    THEN [score_a |-> st.score_a, score_b |-> st.score_b, rng |-> rng, ok |-> FALSE]
    ELSE LET x1 == NextRng(rng)
             x2 == NextRng(x1)
         IN shootout_loop(shootout_round(st, kick_scores(x1, rate_a), kick_scores(x2, rate_b)),
                          rate_a, rate_b, x2)

_simulate_penalties(team_a, team_b, rng) ==
    shootout_loop(penalty_start, penalty_rate(team_a), penalty_rate(team_b), rng)

\* one sample of simulate_match: the record st holds the samples drawn so far
\* and the generator state, drawn is the value and the state after the draw
Sampled(st, name, drawn) == [st EXCEPT ![name] = drawn.value, !.rng = drawn.rng]

sample_goals(st, name, lam) == Sampled(st, name, _sample_poisson(lam, st.rng))

\* goals names the sample that holds the number of goals
sample_minutes(st, name, goals, start, end) ==
    Sampled(st, name, _generate_goal_minutes(st[goals], start, end, st.rng))

sample_scorers(st, goals) == [st EXCEPT !.rng = pick_scorers(st[goals], st.rng)]

sample_stats(st) == Sampled(st, "us", four_draws(st.rng))

\* the samples of one period in the order of the code (lines 203-223 for
\* regulation time, lines 258-275 for extra time): the goals of both teams,
\* the minutes of both, the scorers and assists of both
sample_period(lambda_a, lambda_b, start, end, rng) ==
    LET goals_a == sample_goals([goals_a |-> 0, goals_b |-> 0, minutes_a |-> <<>>,
                                 minutes_b |-> <<>>, us |-> <<>>, rng |-> rng],
                                "goals_a", lambda_a)
        goals_b == sample_goals(goals_a, "goals_b", lambda_b)
        minutes_a == sample_minutes(goals_b, "minutes_a", "goals_a", start, end)
        minutes_b == sample_minutes(minutes_a, "minutes_b", "goals_b", start, end)
        scorers_a == sample_scorers(minutes_b, "goals_a")
    IN sample_scorers(scorers_a, "goals_b")

\* simulate_match on the seeded generator: the samples are taken in the order
\* of the code
simulate_match(team_a, team_b, draw_allowed, rng) ==
    LET \* lines 288-292: the shootout pen after the extra time et
        Shootout(et, pen) ==
            [result |-> penalties_result(et, pen.score_a, pen.score_b),
             rng |-> pen.rng, ok |-> pen.ok]
        \* lines 286-294: the result et after extra time
        ExtraTimeResult(et, et_rng) ==
            IF et.penalties
            THEN Shootout(et, _simulate_penalties(team_a, team_b, et_rng))
            ELSE [result |-> et, rng |-> et_rng, ok |-> TRUE]
        \* lines 255-284: the extra time after reg, played with the samples et_drawn
        ExtraTime(reg, et_drawn) ==
            ExtraTimeResult(extra_time_result(reg, et_drawn.goals_a, et_drawn.goals_b,
                                              et_drawn.minutes_a, et_drawn.minutes_b),
                            et_drawn.rng)
        \* lines 254-301: the regulation time reg, played with the samples drawn
        Regulation(lam, reg, drawn) ==
            IF goes_to_extra_time(reg, draw_allowed)
            THEN ExtraTime(reg, sample_period((lam.lambda_a * 33) \div 100,
                                              (lam.lambda_b * 33) \div 100,
                                              91, 120, drawn.rng))
            ELSE [result |-> decide_regulation(reg), rng |-> drawn.rng, ok |-> TRUE]
        \* lines 203-251
        Sample(lam, drawn) ==
            Regulation(lam,
                       regulation_result(team_a, team_b, drawn.goals_a, drawn.goals_b,
                                         drawn.minutes_a, drawn.minutes_b, drawn.us),
                       drawn)
        \* line 200
        Lambdas(lam) ==
            Sample(lam, sample_stats(sample_period(lam.lambda_a, lam.lambda_b, 1, 90, rng)))
    IN Lambdas(calculate_expected_goals(team_a, team_b))

----------------------------------------------------------------------------
(* data.py: teams and groups *)

\* TEAMS, restricted to the 48 teams of GROUPS (get_teams_copy with the default
\* playoff selections); ratings and form in hundredths
Team(code, fifa_ranking, attack, defense, form) ==
    [code |-> code, fifa_ranking |-> fifa_ranking, attack |-> attack,
     defense |-> defense, form |-> form]

TEAMS ==
    ("MEX" :> Team("MEX", 14, 155, 150, 65)) @@
    ("KOR" :> Team("KOR", 24, 140, 145, 60)) @@
    ("RSA" :> Team("RSA", 43, 115, 115, 45)) @@
    ("DEN" :> Team("DEN", 19, 150, 155, 60)) @@
    ("CAN" :> Team("CAN", 35, 135, 130, 55)) @@
    ("SUI" :> Team("SUI", 17, 145, 160, 60)) @@
    ("QAT" :> Team("QAT", 34, 120, 125, 45)) @@
    ("ITA" :> Team("ITA", 10, 155, 180, 65)) @@
    ("BRA" :> Team("BRA", 5, 185, 170, 65)) @@
    ("MAR" :> Team("MAR", 16, 150, 160, 70)) @@
    ("HAI" :> Team("HAI", 47, 85, 90, 35)) @@
    ("SCO" :> Team("SCO", 27, 135, 140, 55)) @@
    ("USA" :> Team("USA", 15, 150, 150, 65)) @@
    ("PAR" :> Team("PAR", 33, 130, 135, 50)) @@
    ("AUS" :> Team("AUS", 28, 135, 135, 55)) @@
    ("TUR" :> Team("TUR", 20, 150, 145, 60)) @@
    ("GER" :> Team("GER", 9, 175, 170, 65)) @@
    ("CUR" :> Team("CUR", 46, 90, 95, 40)) @@
    ("CIV" :> Team("CIV", 38, 135, 130, 55)) @@
    ("ECU" :> Team("ECU", 22, 150, 140, 55)) @@
    ("NED" :> Team("NED", 7, 175, 170, 65)) @@
    ("JPN" :> Team("JPN", 18, 155, 150, 70)) @@
    ("POL" :> Team("POL", 25, 140, 145, 55)) @@
    ("TUN" :> Team("TUN", 31, 125, 140, 50)) @@
    ("BEL" :> Team("BEL", 6, 170, 165, 60)) @@
    ("EGY" :> Team("EGY", 30, 140, 135, 55)) @@
    ("IRN" :> Team("IRN", 26, 135, 145, 55)) @@
    ("NZL" :> Team("NZL", 44, 105, 115, 40)) @@
    ("ESP" :> Team("ESP", 3, 185, 180, 75)) @@
    ("URU" :> Team("URU", 13, 165, 170, 65)) @@
    ("KSA" :> Team("KSA", 35, 125, 130, 50)) @@
    ("CPV" :> Team("CPV", 45, 105, 110, 40)) @@
    ("FRA" :> Team("FRA", 2, 190, 185, 75)) @@
    ("SEN" :> Team("SEN", 23, 145, 145, 55)) @@
    ("NOR" :> Team("NOR", 29, 155, 130, 55)) @@
    ("IRQ" :> Team("IRQ", 42, 115, 120, 45)) @@
    ("ARG" :> Team("ARG", 1, 195, 185, 80)) @@
    ("ALG" :> Team("ALG", 32, 130, 135, 50)) @@
    ("AUT" :> Team("AUT", 21, 145, 145, 60)) @@
    ("JOR" :> Team("JOR", 40, 110, 125, 45)) @@
    ("POR" :> Team("POR", 8, 180, 175, 70)) @@
    ("COL" :> Team("COL", 12, 165, 155, 65)) @@
    ("UZB" :> Team("UZB", 41, 120, 120, 45)) @@
    ("COD" :> Team("COD", 39, 125, 120, 45)) @@
    ("ENG" :> Team("ENG", 4, 180, 175, 70)) @@
    ("CRO" :> Team("CRO", 11, 160, 170, 60)) @@
    ("GHA" :> Team("GHA", 36, 130, 125, 45)) @@
    ("PAN" :> Team("PAN", 37, 115, 130, 45))

\* GROUPS: a dict in insertion order is a list of <<key, value>> pairs
GROUPS ==
    <<
      <<"A", <<"MEX", "KOR", "RSA", "DEN">>>>,
      <<"B", <<"CAN", "SUI", "QAT", "ITA">>>>,
      <<"C", <<"BRA", "MAR", "HAI", "SCO">>>>,
      <<"D", <<"USA", "PAR", "AUS", "TUR">>>>,
      <<"E", <<"GER", "CUR", "CIV", "ECU">>>>,
      <<"F", <<"NED", "JPN", "POL", "TUN">>>>,
      <<"G", <<"BEL", "EGY", "IRN", "NZL">>>>,
      <<"H", <<"ESP", "URU", "KSA", "CPV">>>>,
      <<"I", <<"FRA", "SEN", "NOR", "IRQ">>>>,
      <<"J", <<"ARG", "ALG", "AUT", "JOR">>>>,
      <<"K", <<"POR", "COL", "UZB", "COD">>>>,
      <<"L", <<"ENG", "CRO", "GHA", "PAN">>>>
    >>

\* the team codes in ascending string order, as sorted() compares them
CodeOrder ==
    <<"ALG", "ARG", "AUS", "AUT", "BEL", "BRA", "CAN", "CIV",
      "COD", "COL", "CPV", "CRO", "CUR", "DEN", "ECU", "EGY",
      "ENG", "ESP", "FRA", "GER", "GHA", "HAI", "IRN", "IRQ",
      "ITA", "JOR", "JPN", "KOR", "KSA", "MAR", "MEX", "NED",
      "NOR", "NZL", "PAN", "PAR", "POL", "POR", "QAT", "RSA",
      "SCO", "SEN", "SUI", "TUN", "TUR", "URU", "USA", "UZB">>

CodeOrd(c) == CHOOSE i \in DOMAIN CodeOrder : CodeOrder[i] = c

\* d[k] on a dict kept as a list of <<key, value>> pairs
Lookup(items, k) == items[CHOOSE i \in DOMAIN items : items[i][1] = k][2]

Keys(items) == [i \in DOMAIN items |-> items[i][1]]

----------------------------------------------------------------------------
(* simulation.py: the group stage.  simulate_group_stage is given the      *)
(* results of the matches it simulates as sim, a function from the pair    *)
(* <<code_a, code_b>> of each unlocked match to its MatchResult; a         *)
(* GroupStanding is kept without its results list.                         *)

\* MatchResult(team_a=, team_b=, score_a=, score_b=, winner=): the other
\* fields keep the defaults of the dataclass
locked_match_result(code_a, code_b, sa, sb) ==
    [team_a |-> code_a, team_b |-> code_b,
     score_a |-> sa, score_b |-> sb,
     goals |-> <<>>,
     extra_time |-> FALSE, et_score_a |-> 0, et_score_b |-> 0,
     penalty_score_a |-> 0, penalty_score_b |-> 0, penalties |-> FALSE,
     winner |-> IF sa > sb THEN code_a ELSE IF sb > sa THEN code_b ELSE None,
     shots_a |-> 0, shots_b |-> 0,
     shots_on_target_a |-> 0, shots_on_target_b |-> 0]

is_locked(locked, code_a, code_b) ==
    <<code_a, code_b>> \in DOMAIN locked \/ <<code_b, code_a>> \in DOMAIN locked

\* variant that reads a reversed key without swapping the two scores
group_match_rev_key_unswapped(locked, sim, code_a, code_b) ==
    LET lock_key == <<code_a, code_b>>
        rev_key == <<code_b, code_a>>
    IN IF lock_key \in DOMAIN locked
       THEN locked_match_result(code_a, code_b, locked[lock_key][1], locked[lock_key][2])
       ELSE IF rev_key \in DOMAIN locked
       THEN locked_match_result(code_a, code_b, locked[rev_key][1], locked[rev_key][2])
       ELSE sim[lock_key]

\* lines 424-443: the result of the match of code_a against code_b
group_match(locked, sim, code_a, code_b) ==
    LET lock_key == <<code_a, code_b>>
        rev_key == <<code_b, code_a>>
    IN IF lock_key \in DOMAIN locked
       THEN locked_match_result(code_a, code_b, locked[lock_key][1], locked[lock_key][2])
       ELSE IF rev_key \in DOMAIN locked
       THEN locked_match_result(code_a, code_b, locked[rev_key][2], locked[rev_key][1])
       ELSE sim[lock_key]

\* variant in which a standing starts from the counts of an earlier run
GroupStanding_carried_over(team) ==
    [team |-> team, played |-> 3, wins |-> 1, draws |-> 1, losses |-> 1,
     gf |-> 2, ga |-> 2, points |-> 4]

GroupStanding(team) ==
    [team |-> team, played |-> 0, wins |-> 0, draws |-> 0, losses |-> 0,
     gf |-> 0, ga |-> 0, points |-> 0]

gd(s) == s.gf - s.ga

\* variant of the update in which a draw gives its point to the first team only
update_standings_draw_one_sided(standings, result) ==
    LET a == result.team_a
        b == result.team_b
        played == [standings EXCEPT ![a].played = @ + 1, ![b].played = @ + 1,
                                    ![a].gf = @ + result.score_a,
                                    ![a].ga = @ + result.score_b,
                                    ![b].gf = @ + result.score_b,
                                    ![b].ga = @ + result.score_a]
    IN IF result.score_a > result.score_b
       THEN [played EXCEPT ![a].wins = @ + 1, ![a].points = @ + 3, ![b].losses = @ + 1]
       ELSE IF result.score_b > result.score_a
       THEN [played EXCEPT ![b].wins = @ + 1, ![b].points = @ + 3, ![a].losses = @ + 1]
       ELSE [played EXCEPT ![a].draws = @ + 1, ![b].draws = @ + 1, ![a].points = @ + 1]

\* lines 447-471; standings is the dict code -> GroupStanding
update_standings(standings, result) ==
    LET a == result.team_a
        b == result.team_b
        played == [standings EXCEPT ![a].played = @ + 1, ![b].played = @ + 1,
                                    ![a].gf = @ + result.score_a,
                                    ![a].ga = @ + result.score_b,
                                    ![b].gf = @ + result.score_b,
                                    ![b].ga = @ + result.score_a]
    IN IF result.score_a > result.score_b
       THEN [played EXCEPT ![a].wins = @ + 1, ![a].points = @ + 3, ![b].losses = @ + 1]
       ELSE IF result.score_b > result.score_a
       THEN [played EXCEPT ![b].wins = @ + 1, ![b].points = @ + 3, ![a].losses = @ + 1]
       ELSE [played EXCEPT ![a].draws = @ + 1, ![b].draws = @ + 1,
                           ![a].points = @ + 1, ![b].points = @ + 1]

\* the index pairs of "for i in range(n): for j in range(i + 1, n)", 1-based,
\* in loop order
RECURSIVE PairsFrom(_, _, _)
PairsFrom(i, j, n) ==
    IF i > n THEN <<>>
    ELSE IF j > n THEN PairsFrom(i + 1, i + 2, n)
    ELSE <<<<i, j>>>> \o PairsFrom(i, j + 1, n)

\* variant whose inner loop stops one team short
RoundRobin_without_last(team_codes) ==
    LET pairs == PairsFrom(1, 2, Len(team_codes) - 1)
    IN [k \in 1..Len(pairs) |-> <<team_codes[pairs[k][1]], team_codes[pairs[k][2]]>>]

RoundRobin(team_codes) ==
    LET pairs == PairsFrom(1, 2, Len(team_codes))
    IN [k \in 1..Len(pairs) |-> <<team_codes[pairs[k][1]], team_codes[pairs[k][2]]>>]

\* the round robin of one group: the matches in loop order and the standings
RECURSIVE play_group(_, _, _, _, _)
play_group(locked, sim, pairs, standings, matches) ==
    IF pairs = <<>> THEN [standings |-> standings, matches |-> matches]
    ELSE LET result == group_match(locked, sim, Head(pairs)[1], Head(pairs)[2])
         IN play_group(locked, sim, Tail(pairs),
                       update_standings(standings, result), Append(matches, result))

\* variant of the sort key with the FIFA ranking not negated
standing_key_ranking_desc(tms, s) ==
    <<s.points, gd(s), s.gf, Get(tms[s.team], "fifa_ranking", 100)>>

\* the sort key of lines 476-481 and 503-508
standing_key(tms, s) ==
    <<s.points, gd(s), s.gf, -Get(tms[s.team], "fifa_ranking", 100)>>

\* lines 473-483: sorted(standings.values(), key=..., reverse=True)
group_table(tms, team_codes, standings) ==
    Values(SortKeyed([i \in 1..Len(team_codes) |->
                         [key |-> standing_key(tms, standings[team_codes[i]]),
                          val |-> standings[team_codes[i]]]],
                     TRUE))

\* the body of "for group_letter, team_codes in groups.items()"
simulate_group(tms, locked, sim, team_codes) ==
    LET played == play_group(locked, sim, RoundRobin(team_codes),
                             [code \in Range(team_codes) |-> GroupStanding(code)], <<>>)
    IN [table |-> group_table(tms, team_codes, played.standings),
        matches |-> played.matches]

simulate_group_stage(tms, grps, locked, sim) ==
    LET gs == IF grps = <<>> THEN GROUPS ELSE grps
    IN [all_tables |-> [g \in 1..Len(gs) |->
                           <<gs[g][1], simulate_group(tms, locked, sim, gs[g][2]).table>>],
        all_matches |-> [g \in 1..Len(gs) |->
                           <<gs[g][1], simulate_group(tms, locked, sim, gs[g][2]).matches>>]]

\* variant that sorts without reverse=True
get_best_third_place_ascending(tables, tms) ==
    LET with_third == SelectSeq(tables, LAMBDA item : Len(item[2]) >= 3)
        third_placed == [i \in 1..Len(with_third) |->
                            [key |-> standing_key(tms, with_third[i][2][3]),
                             val |-> with_third[i][2][3]]]
        ranked == Values(SortKeyed(third_placed, FALSE))
    IN SubSeq(ranked, 1, Min(8, Len(ranked)))

\* lines 490-511
get_best_third_place(tables, tms) ==
    LET with_third == SelectSeq(tables, LAMBDA item : Len(item[2]) >= 3)
        third_placed == [i \in 1..Len(with_third) |->
                            [key |-> standing_key(tms, with_third[i][2][3]),
                             val |-> with_third[i][2][3]]]
        ranked == Values(SortKeyed(third_placed, TRUE))
    IN SubSeq(ranked, 1, Min(8, Len(ranked)))

----------------------------------------------------------------------------
(* data.py: the knockout bracket.  A slot string such as "1A" or "3_ABCDF" *)
(* is kept as the list of its characters.                                  *)

Chars2(a, b) == <<a, b>>

BestThird(a, b, c, d, e) == <<"3", "_", a, b, c, d, e>>

R32(id, slot_a, slot_b) == [id |-> id, slot_a |-> slot_a, slot_b |-> slot_b]

ROUND_OF_32 ==
    <<R32(73, Chars2("2", "A"), Chars2("2", "B")),
      R32(74, Chars2("1", "E"), BestThird("A", "B", "C", "D", "F")),
      R32(75, Chars2("1", "F"), Chars2("2", "C")),
      R32(76, Chars2("1", "C"), Chars2("2", "F")),
      R32(77, Chars2("1", "I"), BestThird("C", "D", "F", "G", "H")),
      R32(78, Chars2("2", "E"), Chars2("2", "I")),
      R32(79, Chars2("1", "A"), BestThird("C", "E", "F", "H", "I")),
      R32(80, Chars2("1", "L"), BestThird("E", "H", "I", "J", "K")),
      R32(81, Chars2("1", "D"), BestThird("B", "E", "F", "I", "J")),
      R32(82, Chars2("1", "G"), BestThird("A", "E", "H", "I", "J")),
      R32(83, Chars2("2", "K"), Chars2("2", "L")),
      R32(84, Chars2("1", "H"), Chars2("2", "J")),
      R32(85, Chars2("1", "B"), BestThird("E", "F", "G", "I", "J")),
      R32(86, Chars2("1", "J"), Chars2("2", "H")),
      R32(87, Chars2("1", "K"), BestThird("D", "E", "I", "J", "L")),
      R32(88, Chars2("2", "D"), Chars2("2", "G"))>>

\* variant that pairs the winners two template entries apart
ROUND_OF_16_FEEDS_two_apart ==
    <<<<0, 2>>, <<1, 3>>, <<4, 6>>, <<5, 7>>, <<8, 10>>, <<9, 11>>, <<12, 14>>, <<13, 15>>>>

\* the feeds hold 0-based list indices, as in the source
ROUND_OF_16_FEEDS ==
    <<Chars2(0, 1), Chars2(2, 3), Chars2(4, 5), Chars2(6, 7),
      Chars2(8, 9), Chars2(10, 11), Chars2(12, 13), Chars2(14, 15)>>

QF_FEEDS == <<Chars2(0, 1), Chars2(2, 3), Chars2(4, 5), Chars2(6, 7)>>

\* SF_FEEDS in the source (the prefix SF_ is reserved in TLA+)
SEMIFINAL_FEEDS == <<Chars2(0, 1), Chars2(2, 3)>>

----------------------------------------------------------------------------
(* simulation.py: the knockout stage and the tournament, on the seeded      *)
(* generator.  The operators cover tables that hold every group named by    *)
(* the bracket, with the positions the slots ask for.                       *)

\* int(slot[0])
DigitValue(c) == CHOOSE d \in 0..9 : <<"0", "1", "2", "3", "4", "5", "6", "7", "8", "9">>[d + 1] = c

\* variant with position = int(slot[0]), without the shift to a list index
_resolve_slot_position_not_shifted(slot, tables, third_place_assignment, match_id) ==
    IF Len(slot) >= 2 /\ slot[1] = "3" /\ slot[2] = "_"
    THEN IF match_id # 0 /\ match_id \in DOMAIN third_place_assignment
         THEN Lookup(tables, third_place_assignment[match_id])[3].team
         ELSE "TBD"
    ELSE Lookup(tables, slot[2])[DigitValue(slot[1]) + 1].team

\* lines 518-533
_resolve_slot(slot, tables, third_place_assignment, match_id) ==
    IF Len(slot) >= 2 /\ slot[1] = "3" /\ slot[2] = "_"
    THEN IF match_id # 0 /\ match_id \in DOMAIN third_place_assignment
         THEN Lookup(tables, third_place_assignment[match_id])[3].team
         ELSE "TBD"
    ELSE Lookup(tables, slot[2])[DigitValue(slot[1])].team

\* lines 543-549
third_groups_of(tables, third_place_standings) ==
    Keys(SelectSeq(tables,
                   LAMBDA item : /\ Len(item[2]) >= 3
                                 /\ item[2][3].team \in
                                       {third_place_standings[i].team :
                                           i \in DOMAIN third_place_standings}))

\* a match that was not played (None in the place of a MatchResult)
NoMatch == [played |-> FALSE]

\* the local variables of simulate_knockout_stage before the Round of 32,
\* with the generator state rng; ok is false once a shootout was cut short
knockout_start(rng) ==
    [r32_matches |-> <<>>, r32_winners |-> EmptyDict,
     r16_matches |-> <<>>, r16_winners |-> <<>>,
     qf_matches |-> <<>>, qf_winners |-> <<>>,
     sf_matches |-> <<>>, sf_winners |-> <<>>, sf_losers |-> <<>>,
     third_place_match |-> NoMatch, final_match |-> NoMatch,
     rng |-> rng, ok |-> TRUE]

\* lines 568-569
r32_played(ko, id, m) ==
    [ko EXCEPT !.r32_matches = Append(@, m.result),
               !.r32_winners = DictSet(@, id, m.result.winner),
               !.rng = m.rng, !.ok = m.ok]

\* lines 557-569: the Round of 32 over the template entries not yet visited
RECURSIVE r32_loop(_, _, _, _, _)
r32_loop(tms, tables, assignment, todo, ko) ==
    IF todo = <<>> \/ ~ko.ok THEN ko
    ELSE LET match == Head(todo)
             team_a_code == _resolve_slot(match.slot_a, tables, assignment, match.id)
             team_b_code == _resolve_slot(match.slot_b, tables, assignment, match.id)
         IN IF team_a_code = "TBD" \/ team_b_code = "TBD"
            THEN r32_loop(tms, tables, assignment, Tail(todo), ko)
            ELSE r32_loop(tms, tables, assignment, Tail(todo),
                          r32_played(ko, match.id,
                                     simulate_match(tms[team_a_code], tms[team_b_code],
                                                    FALSE, ko.rng)))

\* r32_winners.get(mid) with mid = r32_match_ids[idx] if idx < len(...) else None
r32_winner(r32_winners, idx) ==
    IF idx < Len(ROUND_OF_32) /\ ROUND_OF_32[idx + 1].id \in DOMAIN r32_winners
    THEN r32_winners[ROUND_OF_32[idx + 1].id]
    ELSE None

\* lines 590-591
r16_played(ko, m) ==
    [ko EXCEPT !.r16_matches = Append(@, m.result),
               !.r16_winners = Append(@, m.result.winner),
               !.rng = m.rng, !.ok = m.ok]

\* lines 576-591: the Round of 16
RECURSIVE r16_loop(_, _, _)
r16_loop(tms, todo, ko) ==
    IF todo = <<>> \/ ~ko.ok THEN ko
    ELSE LET winner_a == r32_winner(ko.r32_winners, Head(todo)[1])
             winner_b == r32_winner(ko.r32_winners, Head(todo)[2])
         IN IF winner_a = None \/ winner_b = None
            THEN r16_loop(tms, Tail(todo), ko)
            ELSE r16_loop(tms, Tail(todo),
                          r16_played(ko, simulate_match(tms[winner_a], tms[winner_b],
                                                        FALSE, ko.rng)))

\* lines 603-604
qf_played(ko, m) ==
    [ko EXCEPT !.qf_matches = Append(@, m.result),
               !.qf_winners = Append(@, m.result.winner),
               !.rng = m.rng, !.ok = m.ok]

\* lines 597-604: the quarterfinals
RECURSIVE qf_loop(_, _, _)
qf_loop(tms, todo, ko) ==
    IF todo = <<>> \/ ~ko.ok THEN ko
    ELSE LET idx_a == Head(todo)[1]
             idx_b == Head(todo)[2]
         IN IF idx_a < Len(ko.r16_winners) /\ idx_b < Len(ko.r16_winners)
            THEN qf_loop(tms, Tail(todo),
                         qf_played(ko, simulate_match(tms[ko.r16_winners[idx_a + 1]],
                                                      tms[ko.r16_winners[idx_b + 1]],
                                                      FALSE, ko.rng)))
            ELSE qf_loop(tms, Tail(todo), ko)

\* lines 617-620: the loser is the team that is not the winner
sf_played(ko, m) ==
    [ko EXCEPT !.sf_matches = Append(@, m.result),
               !.sf_winners = Append(@, m.result.winner),
               !.sf_losers = Append(@, IF m.result.winner = m.result.team_b
                                       THEN m.result.team_a ELSE m.result.team_b),
               !.rng = m.rng, !.ok = m.ok]

\* lines 611-620: the semifinals
RECURSIVE sf_loop(_, _, _)
sf_loop(tms, todo, ko) ==
    IF todo = <<>> \/ ~ko.ok THEN ko
    ELSE LET idx_a == Head(todo)[1]
             idx_b == Head(todo)[2]
         IN IF idx_a < Len(ko.qf_winners) /\ idx_b < Len(ko.qf_winners)
            THEN sf_loop(tms, Tail(todo),
                         sf_played(ko, simulate_match(tms[ko.qf_winners[idx_a + 1]],
                                                      tms[ko.qf_winners[idx_b + 1]],
                                                      FALSE, ko.rng)))
            ELSE sf_loop(tms, Tail(todo), ko)

\* a match after the semifinals, kept in the local variable name
late_played(ko, name, m) == [ko EXCEPT ![name] = m.result, !.rng = m.rng, !.ok = m.ok]

\* variant that plays the match for third place between the semifinal winners
third_place_playoff_between_winners(tms, ko) ==
    IF Len(ko.sf_winners) = 2 /\ ko.ok
    THEN late_played(ko, "third_place_match",
                     simulate_match(tms[ko.sf_winners[1]], tms[ko.sf_winners[2]],
                                    FALSE, ko.rng))
    ELSE ko

\* lines 623-628: the match for third place
third_place_playoff(tms, ko) ==
    IF Len(ko.sf_losers) = 2 /\ ko.ok
    THEN late_played(ko, "third_place_match",
                     simulate_match(tms[ko.sf_losers[1]], tms[ko.sf_losers[2]],
                                    FALSE, ko.rng))
    ELSE ko

\* lines 631-640: the final
final(tms, ko) ==
    IF Len(ko.sf_winners) = 2 /\ ko.ok
    THEN late_played(ko, "final_match",
                     simulate_match(tms[ko.sf_winners[1]], tms[ko.sf_winners[2]],
                                    FALSE, ko.rng))
    ELSE ko

\* variant that takes the second-listed finalist as the runner-up
knockout_result_runner_up_listed_second(tables, third_place_standings, ko) ==
    LET final_match == ko.final_match
        champion == IF final_match = NoMatch THEN None ELSE final_match.winner
        runner_up == IF final_match = NoMatch THEN None ELSE final_match.team_b
    IN [result |->
           [group_tables |-> tables,
            group_matches |-> <<>>,
            third_place_ranking |-> third_place_standings,
            r32_matches |-> ko.r32_matches,
            r16_matches |-> ko.r16_matches,
            qf_matches |-> ko.qf_matches,
            sf_matches |-> ko.sf_matches,
            third_place_match |-> ko.third_place_match,
            final_match |-> final_match,
            champion |-> champion,
            runner_up |-> runner_up,
            third_place |-> IF ko.third_place_match = NoMatch THEN None
                            ELSE ko.third_place_match.winner],
        rng |-> ko.rng, ok |-> ko.ok]

\* lines 641-659: champion, runner_up, third_place and the TournamentResult
knockout_result(tables, third_place_standings, ko) ==
    LET final_match == ko.final_match
        champion == IF final_match = NoMatch THEN None ELSE final_match.winner
        runner_up == IF final_match = NoMatch THEN None
                     ELSE IF champion = final_match.team_b THEN final_match.team_a
                     ELSE final_match.team_b
    IN [result |->
           [group_tables |-> tables,
            group_matches |-> <<>>,
            third_place_ranking |-> third_place_standings,
            r32_matches |-> ko.r32_matches,
            r16_matches |-> ko.r16_matches,
            qf_matches |-> ko.qf_matches,
            sf_matches |-> ko.sf_matches,
            third_place_match |-> ko.third_place_match,
            final_match |-> final_match,
            champion |-> champion,
            runner_up |-> runner_up,
            third_place |-> IF ko.third_place_match = NoMatch THEN None
                            ELSE ko.third_place_match.winner],
        rng |-> ko.rng, ok |-> ko.ok]

\* lines 536-659: the rounds in the order of the code, each from the local
\* variables the round before left
simulate_knockout_stage(tms, tables, third_place_standings, rng) ==
    LET third_groups == third_groups_of(tables, third_place_standings)
        third_place_assignment ==
            assign_third_place_teams(sorted(third_groups)).mapping
        r32 == r32_loop(tms, tables, third_place_assignment, ROUND_OF_32,
                        knockout_start(rng))
        r16 == r16_loop(tms, ROUND_OF_16_FEEDS, r32)
        qf == qf_loop(tms, QF_FEEDS, r16)
        sf == sf_loop(tms, SEMIFINAL_FEEDS, qf)
        playoff == third_place_playoff(tms, sf)
    IN knockout_result(tables, third_place_standings, final(tms, playoff))

\* line 443 of simulate_group_stage: one simulated match, kept under its pair
\* of codes
pair_drawn(acc, code_a, code_b, m) ==
    [sim |-> DictSet(acc.sim, <<code_a, code_b>>, m.result), rng |-> m.rng, ok |-> m.ok]

\* the calls of simulate_match made by simulate_group_stage, in the order of
\* its loops: sim maps the pair of each unlocked match to its result
RECURSIVE drawn_pairs(_, _, _, _)
drawn_pairs(tms, locked, pairs, acc) ==
    IF pairs = <<>> \/ ~acc.ok THEN acc
    ELSE LET code_a == Head(pairs)[1]
             code_b == Head(pairs)[2]
         IN IF is_locked(locked, code_a, code_b)
            THEN drawn_pairs(tms, locked, Tail(pairs), acc)
            ELSE drawn_pairs(tms, locked, Tail(pairs),
                             pair_drawn(acc, code_a, code_b,
                                        simulate_match(tms[code_a], tms[code_b],
                                                       TRUE, acc.rng)))

RECURSIVE drawn_groups(_, _, _, _)
drawn_groups(tms, locked, grps, acc) ==
    IF grps = <<>> \/ ~acc.ok THEN acc
    ELSE drawn_groups(tms, locked, Tail(grps),
                      drawn_pairs(tms, locked, RoundRobin(Head(grps)[2]), acc))

drawn_group_matches(tms, grps, locked, rng) ==
    drawn_groups(tms, locked, IF grps = <<>> THEN GROUPS ELSE grps,
                 [sim |-> EmptyDict, rng |-> rng, ok |-> TRUE])

\* lines 666-680
simulate_tournament(tms, grps, locked, rng) ==
    LET \* line 679
        Result(group_matches, ko) ==
            [result |-> [ko.result EXCEPT !.group_matches = group_matches],
             rng |-> ko.rng, ok |-> ko.ok]
        \* lines 677-678
        Knockout(stage, stage_rng) ==
            Result(stage.all_matches,
                   simulate_knockout_stage(tms, stage.all_tables,
                                           get_best_third_place(stage.all_tables, tms),
                                           stage_rng))
        \* line 676
        GroupStage(drawn) ==
            IF ~drawn.ok THEN [result |-> None, rng |-> drawn.rng, ok |-> FALSE]
            ELSE Knockout(simulate_group_stage(tms, grps, locked, drawn.sim), drawn.rng)
    IN GroupStage(drawn_group_matches(tms, grps, locked, rng))

----------------------------------------------------------------------------
(* simulation.py: run_monte_carlo.  The dict final_matchups is kept as the  *)
(* list of its <<pair, count>> items in insertion order; the percentages    *)
(* computed from the counts on return are not kept.                         *)

stages == <<"Group Exit", "R32", "R16", "QF", "SF", "Final", "Winner">>

\* variant that adds the first-listed team of each match only
teams_of_first_listed(matches) == {matches[i].team_a : i \in DOMAIN matches}

\* lines 709-726: the set of the teams of a list of matches
teams_of(matches) ==
    {matches[i].team_a : i \in DOMAIN matches} \cup {matches[i].team_b : i \in DOMAIN matches}

\* lines 728-731
finalist_teams_of(result) ==
    IF result.final_match = NoMatch THEN {}
    ELSE {result.final_match.team_a, result.final_match.team_b}

Incr(bucket, s) == [bucket EXCEPT ![s] = @ + 1]

\* variant of the chain with "if" in the place of each "elif"
count_team_without_elif(result, code, bucket) ==
    LET b1 == IF result.champion = code THEN Incr(bucket, "Winner") ELSE bucket
        b2 == IF code \in finalist_teams_of(result) THEN Incr(b1, "Final") ELSE b1
        b3 == IF code \in teams_of(result.sf_matches) THEN Incr(b2, "SF") ELSE b2
        b4 == IF code \in teams_of(result.qf_matches) THEN Incr(b3, "QF") ELSE b3
        b5 == IF code \in teams_of(result.r16_matches) THEN Incr(b4, "R16") ELSE b4
    IN IF code \in teams_of(result.r32_matches) THEN Incr(b5, "R32")
       ELSE Incr(b5, "Group Exit")

\* lines 737-751: the if/elif chain for one team
count_team(result, code, bucket) ==
    IF result.champion = code THEN Incr(bucket, "Winner")
    ELSE IF code \in finalist_teams_of(result) THEN Incr(bucket, "Final")
    ELSE IF code \in teams_of(result.sf_matches) THEN Incr(bucket, "SF")
    ELSE IF code \in teams_of(result.qf_matches) THEN Incr(bucket, "QF")
    ELSE IF code \in teams_of(result.r16_matches) THEN Incr(bucket, "R16")
    ELSE IF code \in teams_of(result.r32_matches) THEN Incr(bucket, "R32")
    ELSE Incr(bucket, "Group Exit")

\* variant that keeps the pair in the order of the final
sorted_pair_as_listed(team_a, team_b) == <<team_a, team_b>>

\* tuple(sorted([team_a, team_b])): strings sort in alphabetical order
sorted_pair(team_a, team_b) ==
    IF CodeOrd(team_b) < CodeOrd(team_a) THEN <<team_b, team_a>> ELSE <<team_a, team_b>>

\* d.get(k, default) and d[k] = v on a dict kept as a list of items
ItemsGet(items, k, default) ==
    IF \E i \in DOMAIN items : items[i][1] = k THEN Lookup(items, k) ELSE default

ItemsSet(items, k, v) ==
    IF \E i \in DOMAIN items : items[i][1] = k
    THEN [i \in DOMAIN items |-> IF items[i][1] = k THEN <<k, v>> ELSE items[i]]
    ELSE Append(items, <<k, v>>)

\* lines 732-735
count_final(result, matchups) ==
    IF result.final_match = NoMatch THEN matchups
    ELSE LET pair == sorted_pair(result.final_match.team_a, result.final_match.team_b)
         IN ItemsSet(matchups, pair, ItemsGet(matchups, pair, 0) + 1)

\* variant that also counts a win for the losing finalist
count_win_both_finalists(result, wins) ==
    IF result.champion = None THEN wins
    ELSE [code \in DOMAIN wins |->
             wins[code] + IF code \in finalist_teams_of(result) THEN 1 ELSE 0]

\* lines 753-754
count_win(result, wins) ==
    IF result.champion = None THEN wins
    ELSE DictSet(wins, result.champion,
                 (IF result.champion \in DOMAIN wins THEN wins[result.champion] ELSE 0) + 1)

\* max(final_matchups, key=final_matchups.get): the first key, in insertion
\* order, whose count is the largest; None for the empty dict
max_matchup(matchups) ==
    IF matchups = <<>> THEN None
    ELSE LET i == CHOOSE j \in DOMAIN matchups :
                      /\ \A k \in DOMAIN matchups : matchups[k][2] <= matchups[j][2]
                      /\ \A k \in 1..(j - 1) : matchups[k][2] < matchups[j][2]
         IN matchups[i][1]

\* round(count / n * 100, 1) in tenths of a percent: the nearest tenth, the
\* even one of two equally near (no such tie arises for n below 16)
round_pct(count, n) ==
    LET q == (1000 * count) \div n
        r == (1000 * count) % n
    IN IF 2 * r > n \/ (2 * r = n /\ q % 2 = 1) THEN q + 1 ELSE q

\* variant that reports the percentage of the pair recorded first
max_matchup_pct_of_first(matchups, n) ==
    IF max_matchup(matchups) = None THEN 0
    ELSE round_pct(matchups[1][2], n)

\* lines 767-771: most_likely_final_pct
max_matchup_pct(matchups, n) ==
    IF max_matchup(matchups) = None THEN 0
    ELSE round_pct(Lookup(matchups, max_matchup(matchups)), n)

----------------------------------------------------------------------------
(* A component that takes no part in a specification stays idle *)

AssignIdle ==
    /\ qualifying_groups = <<>>
    /\ assign_pc = "idle"
    /\ assign_result = EmptyDict
    /\ assign_path = "none"
    /\ assign_undone = 0

MatchIdle ==
    /\ team_a_data = None
    /\ team_b_data = None
    /\ allow_draw = TRUE
    /\ match_pc = "idle"
    /\ match_result = None
    /\ shootout = None

InputIdle ==
    /\ teams = EmptyDict
    /\ groups = <<>>
    /\ locked_results = EmptyDict

GroupIdle ==
    /\ group_pc = "idle"
    /\ all_tables = <<>>
    /\ all_matches = <<>>

\* where no set of strings is iterated over, the hash seed plays no part
HashIdle == hash_seed = 0

RandomIdle == random_state = 0

TourIdle ==
    /\ seed = 0
    /\ tour_pc = "idle"
    /\ executions = <<>>

MonteCarloIdle ==
    /\ mc_n = 0
    /\ runs = 0
    /\ counts = EmptyDict
    /\ win_counts = EmptyDict
    /\ final_matchups = <<>>
    /\ mc_pc = "idle"
    /\ most_likely_final = None
    /\ most_likely_final_pct = 0

ThirdIdle ==
    /\ third_tables = <<>>
    /\ third_pc = "idle"
    /\ best_third = <<>>

----------------------------------------------------------------------------
(* Specification of the slot assignment alone *)

\* largest number of qualifying groups drawn as input
MaxQualifying == 8

NumSlots == Cardinality(DOMAIN THIRD_PLACE_SLOTS)

\* the list in the opposite order
Reversed(l) == [i \in 1..Len(l) |-> l[Len(l) + 1 - i]]

\* any set of at most MaxQualifying groups, in ascending order (the caller
\* passes sorted(third_groups)) and in descending order
InitAssign ==
    /\ qualifying_groups \in
          UNION {{SortedLetters(Q), Reversed(SortedLetters(Q))} :
                    Q \in {S \in SUBSET Letters : Cardinality(S) <= MaxQualifying}}
    /\ assign_pc = "call"
    /\ assign_result = EmptyDict
    /\ assign_path = "none"
    /\ assign_undone = 0
    /\ hash_seed \in HashSeeds
    /\ MatchIdle /\ InputIdle /\ GroupIdle
    /\ RandomIdle /\ TourIdle /\ MonteCarloIdle /\ ThirdIdle

AssignThirdPlaceTeams ==
    /\ assign_pc = "call"
    /\ LET r == assign_third_place_teams(qualifying_groups)
       IN /\ assign_result' = r.mapping
          /\ assign_path' = r.path
          /\ assign_undone' = r.undone
    /\ assign_pc' = "returned"
    /\ UNCHANGED <<qualifying_groups, match_vars, input_vars, group_vars, process_vars,
                   random_vars, tour_vars, mc_vars, third_vars>>

NextAssign == AssignThirdPlaceTeams

SpecAssign == InitAssign /\ [][NextAssign]_vars

----------------------------------------------------------------------------
(* Properties of the slot assignment *)

\* every slot of the mapping holds a group eligible for it, no group twice
EligibleInjection(m) ==
    /\ \A s \in DOMAIN m : m[s] \in THIRD_PLACE_SLOTS[s]
    /\ \A s, t \in DOMAIN m : m[s] = m[t] => s = t

\* C1: for every 8-element set Q of groups, assign_third_place_teams(Q)
\* returns a mapping whose keys are exactly the slot ids 74, 77, 79, 80, 81,
\* 82, 85, 87, whose values are exactly the groups of Q, each used once, and
\* in which every slot's group is eligible for the slot.
C1_AssignmentIsEligibleBijection ==
    (assign_pc = "returned" /\ Len(qualifying_groups) = 8) =>
        /\ DOMAIN assign_result = {74, 77, 79, 80, 81, 82, 85, 87}
        /\ {assign_result[s] : s \in DOMAIN assign_result} = Range(qualifying_groups)
        /\ EligibleInjection(assign_result)

\* an 8-group input has been assigned, and the search had to take a choice back
C1_Witness ==
    /\ assign_pc = "returned"
    /\ Len(qualifying_groups) = 8
    /\ assign_undone > 0
    /\ "L" \in Range(qualifying_groups)

\* C2: when the backtracking search finds no assignment, the call does not
\* return a mapping (it fails with an error): a returned mapping always comes
\* from the successful search, never from the greedy fallback.
C2_FailedSearchIsFatal ==
    assign_pc = "returned" => assign_path = "backtrack"

\* C9: for the qualifying groups {A,C,E,F,H,I,J,K} the returned mapping covers
\* all 8 slot ids, every slot holds an eligible group and no group is used
\* twice.
C9_ScenarioACEFHIJK ==
    (assign_pc = "returned"
       /\ qualifying_groups = <<"A", "C", "E", "F", "H", "I", "J", "K">>) =>
        /\ DOMAIN assign_result = {74, 77, 79, 80, 81, 82, 85, 87}
        /\ EligibleInjection(assign_result)
        /\ assign_result[80] = "K"

\* the scenario input has been assigned after at least one dead end
C9_Witness ==
    /\ assign_pc = "returned"
    /\ qualifying_groups = <<"A", "C", "E", "F", "H", "I", "J", "K">>
    /\ assign_path = "backtrack"
    /\ assign_undone > 0

\* the slot ids in the order the assignments are compared in
SlotOrder == <<74, 77, 79, 80, 81, 82, 85, 87>>

\* the slots from the k-th on can be given the groups of remaining, each
\* group to one slot it is eligible for
RECURSIVE Completable(_, _)
Completable(k, remaining) ==
    IF k > Len(SlotOrder) THEN remaining = {}
    ELSE \E g \in THIRD_PLACE_SLOTS[SlotOrder[k]] \cap remaining :
            Completable(k + 1, remaining \ {g})

\* no valid assignment of Q gives an earlier slot a smaller group than m does
\* after agreeing with m on the slots before it
LexSmallest(m, Q) ==
    \A k \in DOMAIN SlotOrder :
        LET before == {m[SlotOrder[j]] : j \in 1..(k - 1)}
        IN \A g \in (THIRD_PLACE_SLOTS[SlotOrder[k]] \cap Q) \ before :
              Ord(g) < Ord(m[SlotOrder[k]]) =>
                  ~Completable(k + 1, Q \ (before \cup {g}))

\* the assigned groups and the remaining groups partition Q, and the slots
\* before the idx-th are the assigned ones
Partitioned(Q, idx, assignment, remaining) ==
    /\ DOMAIN assignment = {slots[j] : j \in 1..(idx - 1)}
    /\ {assignment[s] : s \in DOMAIN assignment} \cap remaining = {}
    /\ {assignment[s] : s \in DOMAIN assignment} \cup remaining = Q
    /\ Cardinality(DOMAIN assignment) + Cardinality(remaining) = Cardinality(Q)

\* the search from backtrack(idx) on: the partition holds at every call, and
\* a call that fails leaves the assignment and the remaining set as it found
\* them
RECURSIVE RestoringSearch(_, _, _, _)
RECURSIVE RestoringLoop(_, _, _, _, _)
RestoringSearch(Q, idx, assignment, remaining) ==
    /\ Partitioned(Q, idx, assignment, remaining)
    /\ idx <= Len(slots) =>
          RestoringLoop(Q, idx,
                        sorted(set_iteration(THIRD_PLACE_SLOTS[slots[idx]] \cap remaining)),
                        assignment, remaining)

RestoringLoop(Q, idx, cands, assignment, remaining) ==
    cands = <<>> \/
    LET tried == DictSet(assignment, slots[idx], Head(cands))
        left == remaining \ {Head(cands)}
        r == backtrack(idx + 1, tried, left)
    IN /\ RestoringSearch(Q, idx + 1, tried, left)
       /\ r.ok \/ (/\ r.assignment = tried
                   /\ r.remaining = left
                   /\ RestoringLoop(Q, idx, Tail(cands), assignment, remaining))

\* C25: when a valid assignment exists, assign_third_place_teams returns the
\* lexicographically smallest one, comparing the groups given to the slots 74,
\* 77, 79, 80, 81, 82, 85, 87 in that order; every dead end of the search
\* restores the remaining set and the partial assignment, so that at each
\* depth the assigned and the remaining groups partition the qualifying set;
\* the smallest assignment depends on the set of the groups only, not on the
\* order of the list
C25_SmallestAssignment ==
    (assign_pc = "returned" /\ Completable(1, Range(qualifying_groups))) =>
        /\ assign_path = "backtrack"
        /\ DOMAIN assign_result = Range(SlotOrder)
        /\ {assign_result[s] : s \in DOMAIN assign_result} = Range(qualifying_groups)
        /\ EligibleInjection(assign_result)
        /\ LexSmallest(assign_result, Range(qualifying_groups))
        /\ RestoringSearch(Range(qualifying_groups), 1, EmptyDict, Range(qualifying_groups))

\* a list given in descending order was assigned after dead ends of the search
C25_Witness ==
    /\ assign_pc = "returned"
    /\ qualifying_groups = <<"L", "K", "J", "I", "H", "G", "F", "E">>
    /\ assign_path = "backtrack"
    /\ assign_undone > 0
    /\ DOMAIN assign_result = Range(SlotOrder)

\* the group a slot of the template takes its team from, given the group
\* assigned to the best-third slot of the match
GroupOfSlot(slot, assigned) ==
    IF slot[1] = "3" /\ slot[2] = "_" THEN assigned ELSE slot[2]

\* C26: no Round-of-32 match pairs two teams of the same group: for every set
\* of 8 qualifying groups and the assignment returned for it, the two slots of
\* every match of the template, a best-third slot taking the group assigned to
\* its match, stand for two different groups
C26_NoSameGroupPairing ==
    (assign_pc = "returned" /\ Len(qualifying_groups) = 8) =>
        \A k \in DOMAIN ROUND_OF_32 :
            LET match == ROUND_OF_32[k]
                assigned == IF match.id \in DOMAIN assign_result
                            THEN assign_result[match.id] ELSE "none"
            IN /\ GroupOfSlot(match.slot_a, assigned) \in Letters
               /\ GroupOfSlot(match.slot_b, assigned) \in Letters
               /\ GroupOfSlot(match.slot_a, assigned) # GroupOfSlot(match.slot_b, assigned)

\* the thirds of the eight groups whose winners meet a third-placed team all
\* qualified and were assigned
C26_Witness ==
    /\ assign_pc = "returned"
    /\ Range(qualifying_groups) = {"A", "B", "D", "E", "G", "I", "K", "L"}
    /\ assign_path = "backtrack"
    /\ DOMAIN assign_result = {74, 77, 79, 80, 81, 82, 85, 87}

----------------------------------------------------------------------------
(* Specification of _simulate_penalties round by round, every kick free to *)
(* score or miss                                                           *)

InitShootout ==
    /\ shootout = penalty_start
    /\ team_a_data = None
    /\ team_b_data = None
    /\ allow_draw = FALSE
    /\ match_pc = "penalties"
    /\ match_result = None
    /\ AssignIdle /\ InputIdle /\ GroupIdle
    /\ HashIdle /\ RandomIdle /\ TourIdle /\ MonteCarloIdle /\ ThirdIdle

ShootoutFrame ==
    UNCHANGED <<team_a_data, team_b_data, allow_draw, match_pc, match_result, assign_vars,
                input_vars, group_vars, process_vars, random_vars, tour_vars, mc_vars,
                third_vars>>

\* lines 319-329: one round of the best of five
PenaltyRound ==
    /\ shootout.phase = "best_of_5"
    /\ \E scored_a \in BOOLEAN, scored_b \in BOOLEAN :
          shootout' = penalty_round(shootout, scored_a, scored_b)
    /\ ShootoutFrame

\* lines 332-338: a pair of kicks that leaves the scores level; followed for
\* MaxSuddenDeath rounds
LevelPair ==
    /\ shootout.phase = "sudden_death"
    /\ shootout.i < 5 + MaxSuddenDeath
    /\ \E scored \in BOOLEAN : shootout' = sudden_death_round(shootout, scored, scored)
    /\ ShootoutFrame

\* lines 332-338: a pair of kicks in which one side scores and the other misses
DecisivePair ==
    /\ shootout.phase = "sudden_death"
    /\ \E scored \in BOOLEAN : shootout' = sudden_death_round(shootout, scored, ~scored)
    /\ ShootoutFrame

NextShootout == PenaltyRound \/ LevelPair \/ DecisivePair

SpecShootout == InitShootout /\ [][NextShootout]_vars

\* the rounds are taken one after the other, and the kicks are independent
\* draws against a rate strictly between 0 and 1: a pair in which one side
\* scores and the other misses, possible in every sudden-death round, is
\* taken in the end
FairShootout ==
    SpecShootout /\ WF_vars(PenaltyRound) /\ WF_vars(DecisivePair)

Lead(st) == IF st.score_a >= st.score_b THEN st.score_a - st.score_b
            ELSE st.score_b - st.score_a

\* each side took one kick
OneKickEach(before, after) ==
    /\ after.score_a - before.score_a \in {0, 1}
    /\ after.score_b - before.score_b \in {0, 1}

\* C19: the best of five is played in rounds of one kick per side and is
\* decided after round r, r in 1..5, exactly when the lead exceeds 5 - r; it
\* goes on to a further round of the five exactly when the lead is at most
\* 5 - r and r is below five, and while it goes on the trailing side can
\* still draw level
C19_EarlyStopExact ==
    /\ [](shootout.phase = "best_of_5" =>
             shootout.i < 5 /\ Lead(shootout) <= 5 - shootout.i)
    /\ [][shootout.phase = "best_of_5" =>
             /\ shootout'.i = shootout.i + 1
             /\ shootout'.i \in 1..5
             /\ OneKickEach(shootout, shootout')
             /\ shootout'.phase = "done" <=> Lead(shootout') > 5 - shootout'.i
             /\ shootout'.phase = "best_of_5" <=>
                   (Lead(shootout') <= 5 - shootout'.i /\ shootout'.i < 5)]_vars

\* the shootout was decided after three rounds, at 3-0
C19_Witness ==
    /\ shootout.phase = "done"
    /\ shootout.i = 3
    /\ Lead(shootout) = 3

\* C20: sudden death is entered only with the scores level after five
\* complete rounds, each of its iterations adds one kick per side, it ends at
\* the first pair after which the scores differ, and the shootout ends in
\* every execution in which a pair that one side wins is taken in the end
C20_SuddenDeathTerminates ==
    /\ [](shootout.phase = "sudden_death" =>
             shootout.i >= 5 /\ shootout.score_a = shootout.score_b)
    /\ [][shootout'.phase = "sudden_death" /\ shootout.phase # "sudden_death" =>
             shootout'.i = 5]_vars
    /\ [][shootout.phase = "sudden_death" =>
             /\ shootout'.i = shootout.i + 1
             /\ OneKickEach(shootout, shootout')
             /\ shootout'.phase = "done" <=> shootout'.score_a # shootout'.score_b
             /\ shootout'.phase = "sudden_death" <=>
                   shootout'.score_a = shootout'.score_b]_vars
    /\ <>(shootout.phase = "done")

\* a shootout level after five rounds and after a first pair of sudden death
\* was decided by the second pair
C20_Witness ==
    /\ shootout.phase = "done"
    /\ shootout.i = 7
    /\ Lead(shootout) = 1

\* C29: _simulate_penalties returns two different scores, both sides having
\* taken the same number of kicks (one per round, so that neither score
\* exceeds the rounds taken); a shootout decided within the best of five
\* leaves neither score above 5, and one that went to sudden death ends with a
\* margin of exactly one goal
C29_ShootoutResult ==
    /\ [](/\ shootout.score_a <= shootout.i
          /\ shootout.score_b <= shootout.i
          /\ shootout.phase = "done" =>
                /\ shootout.score_a # shootout.score_b
                /\ shootout.i <= 5 => shootout.score_a <= 5 /\ shootout.score_b <= 5
                /\ shootout.i > 5 => Lead(shootout) = 1)
    /\ [][/\ shootout'.i = shootout.i + 1
          /\ OneKickEach(shootout, shootout')]_vars

\* a shootout level at 5-5 after the best of five was decided 6-5 by the first
\* pair of sudden death
C29_Witness ==
    /\ shootout.phase = "done"
    /\ shootout.i = 6
    /\ shootout.score_a = 6
    /\ shootout.score_b = 5

----------------------------------------------------------------------------
(* Specification of one call of simulate_match, every sample free *)

\* largest number of goals a Poisson sample yields
MaxGoals == 1

\* the draws tried for random.random(): both ends of [0, 1)
DrawGrid == {0, RandMod - 1}

\* _generate_goal_minutes(n, start, end): every sorted list of n minutes
GoalMinutes(n, start, end) ==
    {SortedMinutes(m) : m \in [1..n -> {randint(start, end, x) : x \in DrawGrid}]}

\* the team records of the calls
MatchTeams ==
    {[code |-> "BRA", attack |-> 185, defense |-> 170, form |-> 65, fifa_ranking |-> 5],
     [code |-> "HAI", attack |-> 85, defense |-> 90, form |-> 35, fifa_ranking |-> 47]}

InitMatch ==
    /\ team_a_data \in MatchTeams
    /\ team_b_data \in MatchTeams \ {team_a_data}
    /\ allow_draw \in BOOLEAN
    /\ match_pc = "call"
    /\ match_result = None
    /\ shootout = None
    /\ AssignIdle /\ InputIdle /\ GroupIdle
    /\ HashIdle /\ RandomIdle /\ TourIdle /\ MonteCarloIdle /\ ThirdIdle

SimulateMatch ==
    /\ match_pc = "call"
    /\ \E goals_a \in 0..MaxGoals, goals_b \in 0..MaxGoals :
       \E minutes_a \in GoalMinutes(goals_a, 1, 90), minutes_b \in GoalMinutes(goals_b, 1, 90) :
       \E us \in [1..4 -> DrawGrid] :
          LET reg == regulation_result(team_a_data, team_b_data, goals_a, goals_b,
                                       minutes_a, minutes_b, us)
          IN IF goes_to_extra_time(reg, allow_draw)
             THEN \E et_goals_a \in 0..MaxGoals, et_goals_b \in 0..MaxGoals :
                  \E et_minutes_a \in GoalMinutes(et_goals_a, 91, 120),
                     et_minutes_b \in GoalMinutes(et_goals_b, 91, 120) :
                     LET et == extra_time_result(reg, et_goals_a, et_goals_b,
                                                 et_minutes_a, et_minutes_b)
                     IN IF et.penalties
                        THEN \E pen \in PenaltyOutcomes :
                                match_result' = penalties_result(et, pen[1], pen[2])
                        ELSE match_result' = et
             ELSE match_result' = decide_regulation(reg)
    /\ match_pc' = "returned"
    /\ UNCHANGED <<team_a_data, team_b_data, allow_draw, shootout, assign_vars, input_vars,
                   group_vars, process_vars, random_vars, tour_vars, mc_vars, third_vars>>

NextMatch == SimulateMatch

SpecMatch == InitMatch /\ [][NextMatch]_vars

\* C3: every MatchResult of a call with allow_draw = false (a knockout match)
\* has a winner, and the winner is one of the two team codes of the match.
C3_KnockoutMatchHasWinner ==
    (match_pc = "returned" /\ ~allow_draw) =>
        /\ match_result.winner # None
        /\ match_result.winner \in {match_result.team_a, match_result.team_b}
        /\ {match_result.team_a, match_result.team_b} = {team_a_data.code, team_b_data.code}

\* a knockout match level after extra time has been decided on penalties
C3_Witness ==
    /\ match_pc = "returned"
    /\ ~allow_draw
    /\ match_result.penalties
    /\ match_result.score_a + match_result.et_score_a
         = match_result.score_b + match_result.et_score_b
    /\ match_result.winner = match_result.team_b

\* the aggregate of a side: its regulation goals plus its extra-time goals
AggregateA(m) == m.score_a + m.et_score_a

AggregateB(m) == m.score_b + m.et_score_b

\* C21: with allow_draw false, extra time is played iff the regulation score
\* is tied, penalties are taken iff extra time was played and the aggregate is
\* still tied, and the winner is the side with the higher aggregate or, after
\* penalties, the side with more converted penalties; with allow_draw true
\* there is neither extra time nor a shootout and the winner is null iff the
\* regulation scores are equal
C21_RegulationExtraTimePenalties ==
    match_pc = "returned" =>
        LET m == match_result
        IN IF allow_draw
           THEN /\ ~m.extra_time
                /\ ~m.penalties
                /\ m.et_score_a = 0 /\ m.et_score_b = 0
                /\ m.winner = None <=> m.score_a = m.score_b
                /\ m.score_a > m.score_b => m.winner = m.team_a
                /\ m.score_b > m.score_a => m.winner = m.team_b
           ELSE /\ m.extra_time <=> m.score_a = m.score_b
                /\ m.penalties <=> (m.extra_time /\ AggregateA(m) = AggregateB(m))
                /\ ~m.penalties =>
                      /\ AggregateA(m) # AggregateB(m)
                      /\ m.winner = IF AggregateA(m) > AggregateB(m) THEN m.team_a
                                    ELSE m.team_b
                /\ m.penalties =>
                      /\ m.penalty_score_a # m.penalty_score_b
                      /\ m.winner = IF m.penalty_score_a > m.penalty_score_b THEN m.team_a
                                    ELSE m.team_b

\* a knockout match tied after regulation was decided in extra time, without
\* a shootout
C21_Witness ==
    /\ match_pc = "returned"
    /\ ~allow_draw
    /\ match_result.extra_time
    /\ ~match_result.penalties
    /\ match_result.score_a = match_result.score_b
    /\ match_result.et_score_b > match_result.et_score_a
    /\ match_result.winner = match_result.team_b

\* C22: in every MatchResult of simulate_match each team's shots and shots on
\* target are at least the goals it scored in the match, extra-time goals
\* included, and its shots on target are at most its shots
C22_ShotsCoverGoals ==
    match_pc = "returned" =>
        /\ match_result.shots_a >= AggregateA(match_result)
        /\ match_result.shots_b >= AggregateB(match_result)
        /\ match_result.shots_on_target_a >= AggregateA(match_result)
        /\ match_result.shots_on_target_b >= AggregateB(match_result)
        /\ match_result.shots_on_target_a <= match_result.shots_a
        /\ match_result.shots_on_target_b <= match_result.shots_b

----------------------------------------------------------------------------
(* Specification of simulate_group_stage on one group of four teams, the   *)
(* score of every unlocked match free                                      *)

\* largest number of goals of a team in a simulated group match
MaxGroupGoals == 2

Sequence4(a, b, c, d) == <<a, b, c, d>>

\* the FIFA rankings of the teams A, B, C, D
RankingChoices == {Sequence4(1, 2, 3, 4), Sequence4(4, 1, 3, 2), Sequence4(2, 2, 2, 2)}

GroupTeams(rk) ==
    ("A" :> Team("A", rk[1], 140, 140, 50)) @@
    ("B" :> Team("B", rk[2], 140, 140, 50)) @@
    ("C" :> Team("C", rk[3], 140, 140, 50)) @@
    ("D" :> Team("D", rk[4], 140, 140, 50))

OneGroup == << <<"A", <<"A", "B", "C", "D">>>> >>

\* the locked results tried: three of the six matches are locked
LockChoices ==
    {(<<"A", "B">> :> <<0, 0>>) @@ (<<"A", "C">> :> <<3, 0>>) @@ (<<"A", "D">> :> <<1, 0>>),
     (<<"B", "A">> :> <<0, 0>>) @@ (<<"A", "C">> :> <<3, 0>>) @@ (<<"D", "A">> :> <<0, 1>>),
     (<<"B", "C">> :> <<1, 1>>) @@ (<<"D", "B">> :> <<2, 0>>) @@ (<<"C", "D">> :> <<0, 1>>)}

InitGroup ==
    /\ teams \in {GroupTeams(rk) : rk \in RankingChoices}
    /\ groups = OneGroup
    /\ locked_results \in LockChoices
    /\ group_pc = "call"
    /\ all_tables = <<>>
    /\ all_matches = <<>>
    /\ AssignIdle /\ MatchIdle
    /\ HashIdle /\ RandomIdle /\ TourIdle /\ MonteCarloIdle /\ ThirdIdle

\* the pairs of the round robins that simulate_match plays
UnlockedPairs(grps, locked) ==
    UNION {{pair \in Range(RoundRobin(grps[g][2])) : ~is_locked(locked, pair[1], pair[2])} :
             g \in DOMAIN grps}

\* the result of simulate_match(team_a, team_b, allow_draw=True) with the given
\* Poisson samples; every other draw is 0, which does not touch the standings
simulated_group_match(team_a, team_b, goals_a, goals_b) ==
    decide_regulation(
        regulation_result(team_a, team_b, goals_a, goals_b,
                          [i \in 1..goals_a |-> randint(1, 90, 0)],
                          [i \in 1..goals_b |-> randint(1, 90, 0)],
                          <<0, 0, 0, 0>>))

SimulateGroupStage ==
    /\ group_pc = "call"
    /\ \E scores \in [UnlockedPairs(groups, locked_results) ->
                         (0..MaxGroupGoals) \X (0..MaxGroupGoals)] :
          LET sim == [pair \in DOMAIN scores |->
                         simulated_group_match(teams[pair[1]], teams[pair[2]],
                                               scores[pair][1], scores[pair][2])]
              r == simulate_group_stage(teams, groups, locked_results, sim)
          IN /\ all_tables' = r.all_tables
             /\ all_matches' = r.all_matches
    /\ group_pc' = "returned"
    /\ UNCHANGED <<input_vars, assign_vars, match_vars, process_vars, random_vars,
                   tour_vars, mc_vars, third_vars>>

NextGroup == SimulateGroupStage

SpecGroup == InitGroup /\ [][NextGroup]_vars

----------------------------------------------------------------------------
(* Properties of the group stage *)

RECURSIVE SumSeq(_)
SumSeq(l) == IF l = <<>> THEN 0 ELSE Head(l) + SumSeq(Tail(l))

Column(table, field) == [i \in 1..Len(table) |-> table[i][field]]

NumDecisive(matches) == Cardinality({i \in DOMAIN matches : matches[i].score_a # matches[i].score_b})

NumDrawn(matches) == Cardinality({i \in DOMAIN matches : matches[i].score_a = matches[i].score_b})

\* C6: after simulate_group_stage, in every group the points handed out are 3
\* for each decisive match and 2 for each drawn one; every standing has
\* points = 3 * wins + draws and goal difference gf - ga; over the group,
\* wins = losses, the number of draws is even and goals-for = goals-against.
C6_GroupPointsAccounting ==
    group_pc = "returned" =>
        \A g \in DOMAIN all_tables :
            LET table == all_tables[g][2]
                matches == all_matches[g][2]
            IN /\ SumSeq(Column(table, "points"))
                    = 3 * NumDecisive(matches) + 2 * NumDrawn(matches)
               /\ \A i \in DOMAIN table :
                     /\ table[i].points = 3 * table[i].wins + table[i].draws
                     /\ gd(table[i]) = table[i].gf - table[i].ga
               /\ SumSeq(Column(table, "wins")) = SumSeq(Column(table, "losses"))
               /\ SumSeq(Column(table, "wins")) = NumDecisive(matches)
               /\ SumSeq(Column(table, "draws")) = 2 * NumDrawn(matches)
               /\ SumSeq(Column(table, "gf")) = SumSeq(Column(table, "ga"))

\* a group has been played with a locked draw, a simulated draw and decisive
\* matches of both kinds
C6_Witness ==
    /\ group_pc = "returned"
    /\ locked_results = (<<"B", "C">> :> <<1, 1>>) @@ (<<"D", "B">> :> <<2, 0>>)
                           @@ (<<"C", "D">> :> <<0, 1>>)
    /\ \E i, j \in DOMAIN all_matches[1][2] :
          /\ all_matches[1][2][i].team_a = "A"
          /\ all_matches[1][2][i].score_a = all_matches[1][2][i].score_b
          /\ all_matches[1][2][j].team_a = "A"
          /\ all_matches[1][2][j].score_a < all_matches[1][2][j].score_b

\* C23: simulate_group_stage plays each unordered pair of teams of a group
\* exactly once: a group of four gives six matches, no pair is played twice or
\* in both orientations, no team plays itself, and every standing ends with
\* played = 3 = wins + draws + losses
C23_EachPairOnce ==
    group_pc = "returned" =>
        \A g \in DOMAIN groups :
            LET team_codes == Range(groups[g][2])
                matches == all_matches[g][2]
                table == all_tables[g][2]
            IN /\ all_matches[g][1] = groups[g][1]
               /\ Cardinality(team_codes) = 4 => Len(matches) = 6
               /\ \A i \in DOMAIN matches :
                     /\ matches[i].team_a # matches[i].team_b
                     /\ {matches[i].team_a, matches[i].team_b} \subseteq team_codes
               /\ \A i, j \in DOMAIN matches :
                     {matches[i].team_a, matches[i].team_b}
                        = {matches[j].team_a, matches[j].team_b} => i = j
               /\ \A x, y \in team_codes :
                     x # y => \E i \in DOMAIN matches :
                                 {matches[i].team_a, matches[i].team_b} = {x, y}
               /\ \A i \in DOMAIN table :
                     /\ table[i].played = 3
                     /\ table[i].wins + table[i].draws + table[i].losses = 3

\* a group was played in which a locked match was keyed in the reverse order
\* of the team list and some team won, drew and lost once each
C23_Witness ==
    /\ group_pc = "returned"
    /\ <<"B", "A">> \in DOMAIN locked_results
    /\ Len(all_matches[1][2]) = 6
    /\ \E i \in DOMAIN all_tables[1][2] :
          /\ all_tables[1][2][i].wins = 1
          /\ all_tables[1][2][i].draws = 1
          /\ all_tables[1][2][i].losses = 1

\* s ranks at least as high as t: points, then goal difference, then goals-for
\* descending, then FIFA ranking ascending
RanksAtLeast(s, t) ==
    \/ s.points > t.points
    \/ s.points = t.points /\ s.gf - s.ga > t.gf - t.ga
    \/ s.points = t.points /\ s.gf - s.ga = t.gf - t.ga /\ s.gf > t.gf
    \/ /\ s.points = t.points /\ s.gf - s.ga = t.gf - t.ga /\ s.gf = t.gf
       /\ teams[s.team].fifa_ranking <= teams[t.team].fifa_ranking

FullTie(s, t) == RanksAtLeast(s, t) /\ RanksAtLeast(t, s)

PositionIn(l, x) == CHOOSE i \in DOMAIN l : l[i] = x

\* C7: each group table is a permutation of the group's teams in which every
\* team listed before another ranks at least as high (points, goal difference,
\* goals-for descending, FIFA ranking ascending); two teams equal on all four
\* keep the order of the group's team list, so that equal standings always
\* give the same table.
C7_TableIsRanked ==
    group_pc = "returned" =>
        \A g \in DOMAIN all_tables :
            LET table == all_tables[g][2]
                team_codes == groups[g][2]
            IN /\ all_tables[g][1] = groups[g][1]
               /\ Len(table) = Len(team_codes)
               /\ {table[i].team : i \in DOMAIN table} = Range(team_codes)
               /\ \A i, j \in DOMAIN table :
                     i < j => /\ RanksAtLeast(table[i], table[j])
                              /\ FullTie(table[i], table[j]) =>
                                    PositionIn(team_codes, table[i].team)
                                       < PositionIn(team_codes, table[j].team)

\* a table in which the FIFA ranking alone decides between two teams, the
\* better-ranked one coming later in the group's list
C7_Witness ==
    /\ group_pc = "returned"
    /\ \E i \in 1..3 :
          LET s == all_tables[1][2][i]
              t == all_tables[1][2][i + 1]
          IN /\ s.points = t.points /\ gd(s) = gd(t) /\ s.gf = t.gf
             /\ teams[s.team].fifa_ranking < teams[t.team].fifa_ranking
             /\ PositionIn(groups[1][2], s.team) > PositionIn(groups[1][2], t.team)

\* the score of the locked match of x against y, seen from x
LockedScore(x, y) ==
    IF <<x, y>> \in DOMAIN locked_results THEN locked_results[<<x, y>>]
    ELSE <<locked_results[<<y, x>>][2], locked_results[<<y, x>>][1]>>

\* the scenario: group {A,B,C,D}, rankings pairwise distinct, A 0-0 B, A 3-0 C
\* and A 1-0 D locked, the other three matches not locked
C8_Scenario ==
    /\ groups = OneGroup
    /\ \A x, y \in DOMAIN teams : x # y => teams[x].fifa_ranking # teams[y].fifa_ranking
    /\ is_locked(locked_results, "A", "B") /\ LockedScore("A", "B") = <<0, 0>>
    /\ is_locked(locked_results, "A", "C") /\ LockedScore("A", "C") = <<3, 0>>
    /\ is_locked(locked_results, "A", "D") /\ LockedScore("A", "D") = <<1, 0>>
    /\ ~is_locked(locked_results, "B", "C")
    /\ ~is_locked(locked_results, "B", "D")
    /\ ~is_locked(locked_results, "C", "D")

StandingOf(table, code) == table[CHOOSE i \in DOMAIN table : table[i].team = code]

RankOf(table, code) == CHOOSE i \in DOMAIN table : table[i].team = code

----------------------------------------------------------------------------
(* Specification of whole tournaments: simulate_tournament is executed, the *)
(* interpreter is started again (with whatever hash seed it draws), and the *)
(* same call is executed a second time from the same generator seed.        *)

\* largest generator seed drawn as input
MaxSeed == 9

\* locked group results handed to the tournament
TournamentLocks ==
    {EmptyDict,
     (<<"MEX", "KOR">> :> <<2, 1>>) @@ (<<"SUI", "CAN">> :> <<0, 0>>) @@
     (<<"BRA", "HAI">> :> <<3, 0>>),
     (<<"NOR", "FRA">> :> <<0, 0>>) @@ (<<"TUN", "JPN">> :> <<1, 2>>) @@
     (<<"BRA", "MAR">> :> <<1, 1>>)}

InitTournament ==
    /\ teams = TEAMS
    /\ groups = GROUPS
    /\ locked_results \in TournamentLocks
    /\ seed \in 0..MaxSeed
    /\ random_state = 0
    /\ hash_seed \in HashSeeds
    /\ tour_pc = "call"
    /\ executions = <<>>
    /\ AssignIdle /\ MatchIdle /\ GroupIdle /\ MonteCarloIdle /\ ThirdIdle

\* random.seed(seed); simulate_tournament(teams, groups, locked_results)
SimulateTournament ==
    /\ tour_pc \in {"call", "restarted"}
    /\ \E t \in {simulate_tournament(teams, groups, locked_results, seed)} :
          /\ t.ok
          /\ executions' = Append(executions, t.result)
          /\ random_state' = t.rng
    /\ tour_pc' = IF tour_pc = "call" THEN "returned" ELSE "done"
    /\ UNCHANGED <<seed, input_vars, process_vars, assign_vars, match_vars, group_vars,
                   mc_vars, third_vars>>

\* the process ends and a new interpreter starts
RestartInterpreter ==
    /\ tour_pc = "returned"
    /\ hash_seed' \in HashSeeds
    /\ tour_pc' = "restarted"
    /\ UNCHANGED <<seed, random_state, executions, input_vars, assign_vars, match_vars, group_vars,
                   mc_vars, third_vars>>

NextTournament == SimulateTournament \/ RestartInterpreter

SpecTournament == InitTournament /\ [][NextTournament]_vars

----------------------------------------------------------------------------
(* simulate_tournament on groups maps that are not twelve groups of four:  *)
(* the same steps as above from other arguments.                           *)

\* the groups map with the list of one group replaced
WithTeams(grps, letter, team_codes) ==
    [g \in 1..Len(grps) |-> IF grps[g][1] = letter THEN <<letter, team_codes>> ELSE grps[g]]

RECURSIVE CutToPairs(_, _)
CutToPairs(grps, letters) ==
    IF letters = <<>> THEN grps
    ELSE CutToPairs(WithTeams(grps, Head(letters), SubSeq(Lookup(grps, Head(letters)), 1, 2)),
                    Tail(letters))

\* group A with five teams and group L with three
FiveAndThree ==
    WithTeams(WithTeams(GROUPS, "A", Append(Lookup(GROUPS, "A"), Lookup(GROUPS, "L")[4])),
              "L", SubSeq(Lookup(GROUPS, "L"), 1, 3))

\* groups H to L with two teams each: seven groups have a third-placed team
SevenThirds == CutToPairs(GROUPS, <<"H", "I", "J", "K", "L">>)

UnevenGroups == {FiveAndThree, SevenThirds}

InitUneven ==
    /\ teams = TEAMS
    /\ groups \in UnevenGroups
    /\ locked_results = EmptyDict
    /\ seed \in 0..MaxSeed
    /\ random_state = 0
    /\ hash_seed \in HashSeeds
    /\ tour_pc = "call"
    /\ executions = <<>>
    /\ AssignIdle /\ MatchIdle /\ GroupIdle /\ MonteCarloIdle /\ ThirdIdle

SpecUneven == InitUneven /\ [][NextTournament]_vars

\* C14: when a slot of the bracket cannot be resolved, simulate_knockout_stage
\* reports it to its caller; a result it returns omits no match of a round,
\* so it holds the 16, 8, 4 and 2 matches of the template and its feeds
C14_UnresolvedSlotIsReported ==
    \A e \in DOMAIN executions :
        /\ Len(executions[e].r32_matches) = Len(ROUND_OF_32)
        /\ Len(executions[e].r16_matches) = Len(ROUND_OF_16_FEEDS)
        /\ Len(executions[e].qf_matches) = Len(QF_FEEDS)
        /\ Len(executions[e].sf_matches) = Len(SEMIFINAL_FEEDS)

\* C15: simulate_tournament returns no TournamentResult for a groups map in
\* which some group does not have exactly 4 teams
C15_UnevenGroupsAreRejected ==
    (\E g \in DOMAIN groups : Len(groups[g][2]) # 4) => executions = <<>>

\* C5: two executions of simulate_tournament on the same teams, groups and
\* locked results, fed the same draws, return the same group tables,
\* third-place ranking, knockout match lists and champion, runner-up and
\* third-place codes, whatever hash seed either interpreter runs with.
C5_TournamentIsDeterministic ==
    tour_pc = "done" =>
        /\ executions[1].group_tables = executions[2].group_tables
        /\ executions[1].third_place_ranking = executions[2].third_place_ranking
        /\ executions[1].r32_matches = executions[2].r32_matches
        /\ executions[1].r16_matches = executions[2].r16_matches
        /\ executions[1].qf_matches = executions[2].qf_matches
        /\ executions[1].sf_matches = executions[2].sf_matches
        /\ executions[1].third_place_match = executions[2].third_place_match
        /\ executions[1].final_match = executions[2].final_match
        /\ executions[1].champion = executions[2].champion
        /\ executions[1].runner_up = executions[2].runner_up
        /\ executions[1].third_place = executions[2].third_place

\* two complete tournaments were played under different hash seeds, with a
\* locked result in force
C5_Witness ==
    /\ tour_pc = "done"
    /\ hash_seed = 1
    /\ locked_results # EmptyDict
    /\ Len(executions[1].r32_matches) = 16
    /\ executions[2].champion \in DOMAIN teams

\* the matches of the group stage and of the knockout stage of a result, in
\* the order they were played
GroupMatchesOf(r) ==
    [g \in DOMAIN r.group_matches |-> r.group_matches[g][2]]

KnockoutRounds(r) ==
    <<r.r32_matches, r.r16_matches, r.qf_matches, r.sf_matches,
      IF r.third_place_match = NoMatch THEN <<>> ELSE <<r.third_place_match>>,
      IF r.final_match = NoMatch THEN <<>> ELSE <<r.final_match>>>>

IsBetween(m, x, y) == {m.team_a, m.team_b} = {x, y}

GoalsOf(m, x) == IF m.team_a = x THEN m.score_a ELSE m.score_b

\* the position of team x in the list of its group
ListedAt(grps, x) ==
    CHOOSE j \in 1..4 : \E g \in DOMAIN grps : j \in DOMAIN grps[g][2] /\ grps[g][2][j] = x

\* the matches ms compared one by one with what simulate_match draws for
\* their two teams, from the generator state st.rng onwards
replay_step(st, m, drawn) == [same |-> drawn.result = m, rng |-> drawn.rng]

RECURSIVE replay_matches(_, _, _)
replay_matches(tms, ms, st) ==
    IF ms = <<>> \/ ~st.same THEN st
    ELSE replay_matches(tms, Tail(ms),
                        replay_step(st, Head(ms),
                                    simulate_match(tms[Head(ms).team_a],
                                                   tms[Head(ms).team_b], FALSE, st.rng)))

RECURSIVE replay_rounds(_, _, _)
replay_rounds(tms, rounds, st) ==
    IF rounds = <<>> \/ ~st.same THEN st
    ELSE replay_rounds(tms, Tail(rounds), replay_matches(tms, Head(rounds), st))

\* C11: every entry (x, y) -> (sx, sy) of locked_results, in either key
\* orientation, fixes the one group match between x and y: it is listed
\* with the team that comes first in the group as team_a, records sx goals
\* for x and sy for y, and its winner follows from that score.  A group pair
\* without an entry has the result simulate_match drew for it.  Every
\* knockout match, also one between a locked pair, is the match
\* simulate_match draws for its two teams from the generator state left by
\* the match before it, and has one of the two as its winner.
C11_LocksFixGroupMatchesOnly ==
    tour_pc \in {"returned", "done"} =>
        LET r == executions[1]
            played == GroupMatchesOf(r)
            drawn == drawn_group_matches(teams, groups, locked_results, seed)
        IN /\ \A key \in DOMAIN locked_results :
                 \E g \in DOMAIN played :
                    /\ Cardinality({i \in DOMAIN played[g] :
                                       IsBetween(played[g][i], key[1], key[2])}) = 1
                    /\ \A i \in DOMAIN played[g] :
                          LET m == played[g][i]
                          IN IsBetween(m, key[1], key[2]) =>
                                /\ ListedAt(groups, m.team_a) < ListedAt(groups, m.team_b)
                                /\ GoalsOf(m, key[1]) = locked_results[key][1]
                                /\ GoalsOf(m, key[2]) = locked_results[key][2]
                                /\ m.winner = IF m.score_a > m.score_b THEN m.team_a
                                              ELSE IF m.score_b > m.score_a THEN m.team_b
                                              ELSE None
           /\ \A g \in DOMAIN played : \A i \in DOMAIN played[g] :
                 LET m == played[g][i]
                 IN ~is_locked(locked_results, m.team_a, m.team_b) =>
                       m = drawn.sim[<<m.team_a, m.team_b>>]
           /\ replay_rounds(teams, KnockoutRounds(r), [same |-> TRUE, rng |-> drawn.rng]).same
           /\ \A k \in DOMAIN KnockoutRounds(r) : \A i \in DOMAIN KnockoutRounds(r)[k] :
                 KnockoutRounds(r)[k][i].winner \in
                    {KnockoutRounds(r)[k][i].team_a, KnockoutRounds(r)[k][i].team_b}

\* a tournament with a lock whose key names the later-listed team first and
\* whose scores differ, and with a drawn lock whose two teams met again in
\* the knockout stage
C11_Witness ==
    /\ tour_pc = "returned"
    /\ \E key \in DOMAIN locked_results :
          /\ ListedAt(groups, key[1]) > ListedAt(groups, key[2])
          /\ locked_results[key][1] # locked_results[key][2]
    /\ \E key \in DOMAIN locked_results :
          /\ locked_results[key][1] = locked_results[key][2]
          /\ \E k \in DOMAIN KnockoutRounds(executions[1]) :
                \E i \in DOMAIN KnockoutRounds(executions[1])[k] :
                   IsBetween(KnockoutRounds(executions[1])[k][i], key[1], key[2])

LoserOf(m) == IF m.winner = m.team_b THEN m.team_a ELSE m.team_b

ParticipantsOf(ms) == {ms[i].team_a : i \in DOMAIN ms} \cup {ms[i].team_b : i \in DOMAIN ms}

\* match k of the round later is played by the winners of matches 2k - 1 and
\* 2k of the round before (1-based; 2k and 2k + 1 counted from 0)
FedByAdjacentWinners(before, later) ==
    \A k \in DOMAIN later :
       /\ later[k].team_a = before[2 * k - 1].winner
       /\ later[k].team_b = before[2 * k].winner

\* C12: with 12 groups of 4 distinct teams the knockout stage has 16
\* Round-of-32, 8 Round-of-16, 4 quarterfinal and 2 semifinal matches, a
\* third-place match and a final; each round pairs the winners of adjacent
\* matches of the round before, the final the two semifinal winners and the
\* third-place match the two semifinal losers; the 32 Round-of-32 places go
\* to 32 different teams and a team that lost appears in no later match,
\* except a semifinal loser in the third-place match.
C12_KnockoutTopology ==
    \A e \in DOMAIN executions :
       LET r == executions[e]
           rounds == KnockoutRounds(r)
       IN /\ Len(r.r32_matches) = 16
          /\ Len(r.r16_matches) = 8
          /\ Len(r.qf_matches) = 4
          /\ Len(r.sf_matches) = 2
          /\ r.third_place_match # NoMatch
          /\ r.final_match # NoMatch
          /\ Cardinality(ParticipantsOf(r.r32_matches)) = 32
          /\ FedByAdjacentWinners(r.r32_matches, r.r16_matches)
          /\ FedByAdjacentWinners(r.r16_matches, r.qf_matches)
          /\ FedByAdjacentWinners(r.qf_matches, r.sf_matches)
          /\ FedByAdjacentWinners(r.sf_matches, <<r.final_match>>)
          /\ r.third_place_match.team_a = LoserOf(r.sf_matches[1])
          /\ r.third_place_match.team_b = LoserOf(r.sf_matches[2])
          /\ \A k \in 1..4 : \A i \in DOMAIN rounds[k] : \A l \in (k + 1)..6 :
                (k = 4 /\ l = 5) \/ LoserOf(rounds[k][i]) \notin ParticipantsOf(rounds[l])

\* a complete knockout stage in which a match of every round up to the
\* semifinals was won by the team listed second
C12_Witness ==
    /\ tour_pc = "returned"
    /\ Len(executions[1].r32_matches) = 16
    /\ executions[1].final_match # NoMatch
    /\ \A k \in 1..4 : \E i \in DOMAIN KnockoutRounds(executions[1])[k] :
          KnockoutRounds(executions[1])[k][i].winner = KnockoutRounds(executions[1])[k][i].team_b

\* C13: in a result with a final, champion is the winner of final_match,
\* runner_up is the other team of final_match and third_place is the winner
\* of third_place_match.
C13_PodiumFromFinalAndPlayoff ==
    \A e \in DOMAIN executions :
       LET r == executions[e]
       IN r.final_match # NoMatch =>
             /\ r.champion = r.final_match.winner
             /\ r.champion \in {r.final_match.team_a, r.final_match.team_b}
             /\ r.runner_up \in {r.final_match.team_a, r.final_match.team_b}
             /\ r.runner_up # r.champion
             /\ r.third_place_match # NoMatch
             /\ r.third_place = r.third_place_match.winner
             /\ r.third_place \in {r.third_place_match.team_a, r.third_place_match.team_b}

\* a result whose final and whose third-place match were both won by the team
\* listed second
C13_Witness ==
    /\ tour_pc = "returned"
    /\ executions[1].final_match # NoMatch
    /\ executions[1].champion = executions[1].final_match.team_b
    /\ executions[1].runner_up = executions[1].final_match.team_a
    /\ executions[1].third_place = executions[1].third_place_match.team_b

\* slot is a best-third slot of the template
IsBestThird(slot) == slot[1] = "3" /\ slot[2] = "_"

\* the groups a best-third slot string lists
ListedGroups(slot) == {slot[i] : i \in 3..Len(slot)}

\* the team code is what the slot of Round-of-32 match id stands for in the
\* result r
ResolvedAs(r, id, slot, code) ==
    IF IsBestThird(slot)
    THEN \E g \in THIRD_PLACE_SLOTS[id] \cap ListedGroups(slot) :
            /\ code = Lookup(r.group_tables, g)[3].team
            /\ \E i \in DOMAIN r.third_place_ranking : r.third_place_ranking[i].team = code
    ELSE /\ slot[1] \in {"1", "2"}
         /\ code = Lookup(r.group_tables, slot[2])[IF slot[1] = "1" THEN 1 ELSE 2].team

\* C24: in the Round of 32 the slot "1g" is the first-ranked team of group g,
\* "2g" the second-ranked, a best-third slot the third-ranked team of a group
\* of the slot's eligibility set; the 32 participants are pairwise distinct
\* and are the 12 group winners, the 12 runners-up and the 8 third-placed teams
\* of get_best_third_place
C24_SlotsResolveToGroupPlaces ==
    \A e \in DOMAIN executions :
        LET r == executions[e]
        IN /\ Len(r.r32_matches) = Len(ROUND_OF_32)
           /\ \A k \in DOMAIN ROUND_OF_32 :
                 /\ ResolvedAs(r, ROUND_OF_32[k].id, ROUND_OF_32[k].slot_a,
                               r.r32_matches[k].team_a)
                 /\ ResolvedAs(r, ROUND_OF_32[k].id, ROUND_OF_32[k].slot_b,
                               r.r32_matches[k].team_b)
           /\ Cardinality(ParticipantsOf(r.r32_matches)) = 32
           /\ Len(r.third_place_ranking) = 8
           /\ ParticipantsOf(r.r32_matches) =
                 {r.group_tables[g][2][1].team : g \in DOMAIN r.group_tables}
                 \cup {r.group_tables[g][2][2].team : g \in DOMAIN r.group_tables}
                 \cup {r.third_place_ranking[i].team : i \in DOMAIN r.third_place_ranking}

\* a tournament in which the third-placed team of group A met the winner of
\* group E in match 74 and the third of group L did not qualify
C24_Witness ==
    \E e \in DOMAIN executions :
        /\ executions[e].r32_matches[2].team_b = Lookup(executions[e].group_tables, "A")[3].team
        /\ executions[e].r32_matches[2].team_a = Lookup(executions[e].group_tables, "E")[1].team
        /\ Lookup(executions[e].group_tables, "L")[3].team
              \notin ParticipantsOf(executions[e].r32_matches)

\* C28: in every TournamentResult with a final and a third-place match,
\* champion, runner_up and third_place are three different teams, all of them
\* semifinal participants; champion and runner_up are the two semifinal
\* winners and third_place is one of the two semifinal losers
C28_PodiumOfSemifinalists ==
    \A e \in DOMAIN executions :
        LET r == executions[e]
            sf_winners == {r.sf_matches[i].winner : i \in DOMAIN r.sf_matches}
            sf_losers == {LoserOf(r.sf_matches[i]) : i \in DOMAIN r.sf_matches}
        IN (r.final_match # NoMatch /\ r.third_place_match # NoMatch) =>
              /\ Cardinality({r.champion, r.runner_up, r.third_place}) = 3
              /\ {r.champion, r.runner_up, r.third_place} \subseteq ParticipantsOf(r.sf_matches)
              /\ Cardinality(sf_winners) = 2
              /\ {r.champion, r.runner_up} = sf_winners
              /\ Cardinality(sf_losers) = 2
              /\ r.third_place \in sf_losers
              /\ sf_winners \cap sf_losers = {}

\* the champion won the second semifinal, and the loser of the first
\* semifinal took third place
C28_Witness ==
    \E e \in DOMAIN executions :
        /\ executions[e].final_match # NoMatch
        /\ executions[e].third_place_match # NoMatch
        /\ executions[e].champion = executions[e].sf_matches[2].winner
        /\ executions[e].third_place = LoserOf(executions[e].sf_matches[1])

\* the GoalEvents of match m recorded for team x
EventsOf(m, x) == SelectSeq(m.goals, LAMBDA g : g.team = x)

\* the GoalEvents of m account for its scores: as many per team as its
\* regulation and extra-time goals, in non-decreasing minute order, the
\* regulation goals in 1..90, the extra-time goals in 91..120 and none after
\* minute 90 unless extra time was played
GoalsAccountedFor(m) ==
    /\ Len(EventsOf(m, m.team_a)) = m.score_a + m.et_score_a
    /\ Len(EventsOf(m, m.team_b)) = m.score_b + m.et_score_b
    /\ \A i \in 1..(Len(m.goals) - 1) : m.goals[i].minute <= m.goals[i + 1].minute
    /\ \A i \in DOMAIN m.goals : m.goals[i].minute \in 1..120
    /\ Len(SelectSeq(EventsOf(m, m.team_a), LAMBDA g : g.minute <= 90)) = m.score_a
    /\ Len(SelectSeq(EventsOf(m, m.team_b), LAMBDA g : g.minute <= 90)) = m.score_b
    /\ (\E i \in DOMAIN m.goals : m.goals[i].minute > 90) => m.extra_time

\* C30: in every MatchResult of a TournamentResult, group matches (those
\* fixed by locked results included) and knockout matches, the GoalEvents of
\* each team are as many as its regulation plus extra-time goals, listed in
\* non-decreasing minute order, regulation goals in 1..90, extra-time goals in
\* 91..120, and events after minute 90 exist only when extra time was played
C30_GoalEventsMatchScores ==
    \A e \in DOMAIN executions :
        /\ \A g \in DOMAIN GroupMatchesOf(executions[e]) :
              \A i \in DOMAIN GroupMatchesOf(executions[e])[g] :
                  GoalsAccountedFor(GroupMatchesOf(executions[e])[g][i])
        /\ \A k \in DOMAIN KnockoutRounds(executions[e]) :
              \A i \in DOMAIN KnockoutRounds(executions[e])[k] :
                  GoalsAccountedFor(KnockoutRounds(executions[e])[k][i])

\* the same restricted to the matches that simulate_match played, which
\* holds: the only matches without their GoalEvents are the locked ones
SimulatedGoalsAccountedFor ==
    \A e \in DOMAIN executions :
        /\ \A g \in DOMAIN GroupMatchesOf(executions[e]) :
              \A i \in DOMAIN GroupMatchesOf(executions[e])[g] :
                  LET m == GroupMatchesOf(executions[e])[g][i]
                  IN is_locked(locked_results, m.team_a, m.team_b) \/ GoalsAccountedFor(m)
        /\ \A k \in DOMAIN KnockoutRounds(executions[e]) :
              \A i \in DOMAIN KnockoutRounds(executions[e])[k] :
                  GoalsAccountedFor(KnockoutRounds(executions[e])[k][i])

----------------------------------------------------------------------------
(* Specification of run_monte_carlo: the state after the initialisation of  *)
(* its locals, one step per iteration of its loop, and its return.          *)

\* largest number of simulations asked for
MaxRuns == 3

\* largest generator seed in force when run_monte_carlo is called
MaxMonteCarloSeed == 3

\* a team of the teams map that plays in no group
NIR == Team("NIR", 52, 100, 110, 40)

\* a teams map in which three teams are rated far above the others, two of
\* them in group B, whose winner and runner-up start in different halves of
\* the bracket
Favourites ==
    [TEAMS EXCEPT !["SUI"] = Team("SUI", 1, 400, 400, 100),
                  !["ITA"] = Team("ITA", 2, 400, 400, 100),
                  !["ENG"] = Team("ENG", 3, 400, 400, 100)]

InitMonteCarlo ==
    /\ teams \in {TEAMS, TEAMS @@ ("NIR" :> NIR), Favourites}
    /\ groups = GROUPS
    /\ locked_results \in TournamentLocks
    /\ random_state \in 0..MaxMonteCarloSeed
    /\ mc_n \in 0..MaxRuns
    /\ runs = 0
    /\ counts = [code \in DOMAIN teams |-> [s \in Range(stages) |-> 0]]
    /\ win_counts = [code \in DOMAIN teams |-> 0]
    /\ final_matchups = <<>>
    /\ mc_pc = "loop"
    /\ most_likely_final = None
    /\ most_likely_final_pct = 0
    /\ AssignIdle /\ MatchIdle /\ GroupIdle /\ HashIdle /\ TourIdle /\ ThirdIdle

\* lines 705-754: one iteration of "for _ in range(n)"
MonteCarloRun ==
    /\ mc_pc = "loop"
    /\ runs < mc_n
    /\ \E t \in {simulate_tournament(teams, groups, locked_results, random_state)} :
          /\ t.ok
          /\ random_state' = t.rng
          /\ counts' = [code \in DOMAIN teams |-> count_team(t.result, code, counts[code])]
          /\ win_counts' = count_win(t.result, win_counts)
          /\ final_matchups' = count_final(t.result, final_matchups)
    /\ runs' = runs + 1
    /\ UNCHANGED <<mc_n, mc_pc, most_likely_final, most_likely_final_pct, input_vars,
                   process_vars, assign_vars,
                   match_vars, group_vars, tour_vars, third_vars>>

\* lines 756-780: the loop is over; counts[code][s] / n divides by zero when
\* n is 0 and the teams map is not empty
MonteCarloReturn ==
    /\ mc_pc = "loop"
    /\ runs = mc_n
    /\ IF mc_n = 0 /\ DOMAIN teams # {}
       THEN /\ mc_pc' = "raised"
            /\ UNCHANGED <<most_likely_final, most_likely_final_pct>>
       ELSE /\ mc_pc' = "returned"
            /\ most_likely_final' = max_matchup(final_matchups)
            /\ most_likely_final_pct' = max_matchup_pct(final_matchups, mc_n)
    /\ UNCHANGED <<mc_n, runs, counts, win_counts, final_matchups, random_vars, input_vars,
                   process_vars, assign_vars, match_vars, group_vars, tour_vars, third_vars>>

NextMonteCarlo == MonteCarloRun \/ MonteCarloReturn

SpecMonteCarlo == InitMonteCarlo /\ [][NextMonteCarlo]_vars

\* the matches of a list that team x played in
MatchesWith(ms, x) == SelectSeq(ms, LAMBDA m : x \in {m.team_a, m.team_b})

RECURSIVE GoalsScored(_, _)
GoalsScored(ms, x) ==
    IF ms = <<>> THEN 0 ELSE GoalsOf(Head(ms), x) + GoalsScored(Tail(ms), x)

RECURSIVE GoalsConceded(_, _)
GoalsConceded(ms, x) ==
    IF ms = <<>> THEN 0
    ELSE (Head(ms).score_a + Head(ms).score_b - GoalsOf(Head(ms), x))
         + GoalsConceded(Tail(ms), x)

\* the standing s counts the matches ms of its team and nothing else
CountsOnly(s, ms) ==
    /\ s.played = Len(ms)
    /\ s.gf = GoalsScored(ms, s.team)
    /\ s.ga = GoalsConceded(ms, s.team)
    /\ s.wins = Len(SelectSeq(ms, LAMBDA m : 2 * GoalsOf(m, s.team) > m.score_a + m.score_b))
    /\ s.draws = Len(SelectSeq(ms, LAMBDA m : m.score_a = m.score_b))
    /\ s.losses = Len(SelectSeq(ms, LAMBDA m : 2 * GoalsOf(m, s.team) < m.score_a + m.score_b))
    /\ s.points = 3 * s.wins + s.draws

\* every table of the result r counts the group matches of r alone
TablesOfThisRun(r) ==
    \A g \in DOMAIN r.group_tables :
        /\ Len(r.group_matches[g][2]) = 6
        /\ \A i \in DOMAIN r.group_tables[g][2] :
              CountsOnly(r.group_tables[g][2][i],
                         MatchesWith(r.group_matches[g][2], r.group_tables[g][2][i].team))

\* C16: no step of run_monte_carlo, which calls simulate_tournament once per
\* run, changes the teams map, the groups map or the locked_results map, and
\* the tables of each run count the matches of that run only, whatever the
\* number of runs made before it
C16_InputsUnchangedRunsFresh ==
    [][/\ teams' = teams
       /\ groups' = groups
       /\ locked_results' = locked_results
       /\ (runs' # runs =>
              TablesOfThisRun(simulate_tournament(teams, groups, locked_results,
                                                  random_state).result))]_vars

\* two runs were made on locked results and the call returned
C16_Witness ==
    /\ mc_pc = "returned"
    /\ runs >= 2
    /\ locked_results # EmptyDict
    /\ teams # TEAMS

\* how often a final between the two teams of the set pair was recorded
RECURSIVE FinalsBetween(_, _)
FinalsBetween(matchups, pair) ==
    IF matchups = <<>> THEN 0
    ELSE (IF Range(Head(matchups)[1]) = pair THEN Head(matchups)[2] ELSE 0)
         + FinalsBetween(Tail(matchups), pair)

FinalPairs(matchups) == {Range(matchups[i][1]) : i \in DOMAIN matchups}

\* the final of r is counted under its pair of teams, in whichever order they
\* were listed, and no other count moves
FinalCountedOnce(r) ==
    /\ r.final_match # NoMatch
    /\ \A pair \in FinalPairs(final_matchups') \cup {{r.final_match.team_a, r.final_match.team_b}} :
          FinalsBetween(final_matchups', pair) =
              FinalsBetween(final_matchups, pair)
              + IF pair = {r.final_match.team_a, r.final_match.team_b} THEN 1 ELSE 0

\* one entry per pair of teams, the counts sum to the runs made, and what is
\* returned is a recorded pair of the largest count with the percentage, to
\* the nearest tenth, of that pair
MatchupsSummedUp ==
    /\ \A i, j \in DOMAIN final_matchups :
          Range(final_matchups[i][1]) = Range(final_matchups[j][1]) => i = j
    /\ \A i \in DOMAIN final_matchups : Cardinality(Range(final_matchups[i][1])) = 2
    /\ FinalsBetween([i \in DOMAIN final_matchups |-> <<<<>>, final_matchups[i][2]>>], {})
          = runs
    /\ mc_pc = "returned" /\ mc_n > 0 =>
          \E i \in DOMAIN final_matchups :
              /\ most_likely_final = final_matchups[i][1]
              /\ \A j \in DOMAIN final_matchups : final_matchups[j][2] <= final_matchups[i][2]
              /\ 2 * (most_likely_final_pct * mc_n - 1000 * final_matchups[i][2]) <= mc_n
              /\ 2 * (1000 * final_matchups[i][2] - most_likely_final_pct * mc_n) <= mc_n

\* C18: a final X vs Y and a final Y vs X increment the same final_matchups
\* entry; the frequencies sum to the number of runs, each of which has a final;
\* most_likely_final is a recorded pair whose frequency is at least that of
\* every other pair, and most_likely_final_pct is the percentage of that pair
C18_FinalsCountedUnordered ==
    /\ []MatchupsSummedUp
    /\ [][runs' # runs =>
             FinalCountedOnce(simulate_tournament(teams, groups, locked_results,
                                                  random_state).result)]_vars

\* the same final was played in two of the runs and is returned as the most
\* likely one, though another pair was recorded before it
C18_Witness ==
    /\ mc_pc = "returned"
    /\ \E i \in DOMAIN final_matchups :
          /\ i > 1
          /\ final_matchups[i][2] >= 2
          /\ most_likely_final = final_matchups[i][1]
          /\ most_likely_final_pct > 0

\* the total of the bucket s over the teams of the set codes
RECURSIVE BucketTotal(_, _)
BucketTotal(codes, s) ==
    IF codes = {} THEN 0
    ELSE LET code == CHOOSE c \in codes : TRUE
         IN counts[code][s] + BucketTotal(codes \ {code}, s)

RECURSIVE WinTotal(_)
WinTotal(codes) ==
    IF codes = {} THEN 0
    ELSE LET code == CHOOSE c \in codes : TRUE
         IN win_counts[code] + WinTotal(codes \ {code})

\* how many teams a run puts in each bucket
PerRun(s) ==
    IF s = "Winner" THEN 1
    ELSE IF s = "Final" THEN 1
    ELSE IF s = "SF" THEN 2
    ELSE IF s = "QF" THEN 4
    ELSE IF s = "R16" THEN 8
    ELSE IF s = "R32" THEN 16
    ELSE Cardinality(DOMAIN teams) - 32

\* C27: each run puts exactly 1 team in Winner, 1 in Final, 2 in SF, 4 in QF,
\* 8 in R16, 16 in R32 and all the other teams in Group Exit: after every run
\* the totals of the buckets over all teams are the runs made times these
\* numbers, and the win counters sum to the runs made
C27_BucketTotals ==
    /\ [](/\ \A s \in Range(stages) : BucketTotal(DOMAIN teams, s) = runs * PerRun(s)
          /\ WinTotal(DOMAIN teams) = runs)
    /\ [][runs' # runs =>
             \A s \in Range(stages) :
                 Cardinality({code \in DOMAIN teams :
                                 counts'[code][s] = counts[code][s] + 1}) = PerRun(s)]_vars

\* three runs or more were counted for a teams map of 49 teams, one of them
\* in no group
C27_Witness ==
    /\ mc_pc = "returned"
    /\ runs >= 3
    /\ Cardinality(DOMAIN teams) = 49
    /\ BucketTotal(DOMAIN teams, "Group Exit") = 17 * runs
    /\ BucketTotal(DOMAIN teams, "R32") = 16 * runs

\* stage s is the furthest stage team code reached in the result r
FurthestStage(r, code, s) ==
    IF s = "Winner" THEN r.champion = code
    ELSE IF s = "Final" THEN code \in finalist_teams_of(r) /\ r.champion # code
    ELSE IF s = "SF" THEN code \in teams_of(r.sf_matches) /\ code \notin finalist_teams_of(r)
    ELSE IF s = "QF" THEN code \in teams_of(r.qf_matches) /\ code \notin teams_of(r.sf_matches)
    ELSE IF s = "R16" THEN code \in teams_of(r.r16_matches) /\ code \notin teams_of(r.qf_matches)
    ELSE IF s = "R32" THEN code \in teams_of(r.r32_matches) /\ code \notin teams_of(r.r16_matches)
    ELSE code \notin teams_of(r.r32_matches)

\* the buckets and the win counters move by the result r as the stages say
CountedByFurthestStage(r) ==
    \A code \in DOMAIN teams :
        /\ \A s \in Range(stages) :
              counts'[code][s] = counts[code][s] + IF FurthestStage(r, code, s) THEN 1 ELSE 0
        /\ win_counts'[code] =
              win_counts[code] + IF FurthestStage(r, code, "Winner") THEN 1 ELSE 0

\* C17: in each run the bucket incremented for a team is the furthest stage it
\* reached (Winner iff champion, Final iff finalist and not champion, SF iff
\* semifinalist and not finalist, and so on down to Group Exit iff it played no
\* Round-of-32 match), and its win counter is incremented iff its Winner
\* bucket is
C17_BucketIsFurthestStage ==
    [][runs' # runs =>
          CountedByFurthestStage(simulate_tournament(teams, groups, locked_results,
                                                     random_state).result)]_vars

\* after a run every bucket holds some team, and a team that plays in no group
\* is counted as a group exit
C17_Witness ==
    /\ runs >= 1
    /\ \A s \in Range(stages) : \E code \in DOMAIN teams : counts[code][s] >= 1
    /\ "NIR" \in DOMAIN teams
    /\ counts["NIR"]["Group Exit"] = runs
    /\ \E code \in DOMAIN teams : win_counts[code] >= 1

BucketSum(bucket) ==
    bucket["Group Exit"] + bucket["R32"] + bucket["R16"] + bucket["QF"] + bucket["SF"]
        + bucket["Final"] + bucket["Winner"]

\* a step of the loop adds one to exactly one bucket of the team and leaves
\* its six other buckets alone
OneBucketIncremented(code) ==
    \E s \in Range(stages) : counts'[code] = [counts[code] EXCEPT ![s] = @ + 1]

\* C4: every iteration of the loop of run_monte_carlo increments exactly one
\* of the 7 stage buckets of every team of the teams map; after k completed
\* iterations the 7 buckets of every team sum to k, and the loop ends with
\* k = n.
C4_BucketsSumToRuns ==
    /\ [](\A code \in DOMAIN teams :
             /\ DOMAIN counts[code] = Range(stages)
             /\ BucketSum(counts[code]) = runs)
    /\ [](runs \in 0..mc_n)
    /\ [](mc_pc \in {"returned", "raised"} => runs = mc_n)
    /\ [][runs' # runs =>
             /\ runs' = runs + 1
             /\ \A code \in DOMAIN teams : OneBucketIncremented(code)]_vars

\* the loop has ended after two runs, with a team outside the groups in the
\* map, a champion counted and teams in several different buckets
C4_Witness ==
    /\ mc_pc = "returned"
    /\ runs = 2
    /\ "NIR" \in DOMAIN teams
    /\ counts["NIR"]["Group Exit"] = 2
    /\ \E code \in DOMAIN teams : counts[code]["Winner"] >= 1
    /\ \E code \in DOMAIN teams : counts[code]["R32"] = 1 /\ counts[code]["QF"] = 1

----------------------------------------------------------------------------
(* Specification of get_best_third_place alone, on tables of the 12 groups  *)
(* whose third entries are drawn from a few records.                        *)

\* number of groups whose third entry is drawn freely
NumFreeThirds == 5

\* the groups in the order in which their third entries become free; B and H
\* come first: CAN and KSA have the same FIFA ranking
ThirdGroupOrder == <<"B", "H", "D", "K", "A", "F", "C", "L", "E", "G", "I", "J">>

\* <<points, gf, ga>> of a third entry
ThirdProfiles == <<<<3, 2, 4>>, <<3, 3, 5>>, <<3, 2, 3>>, <<4, 2, 2>>>>

PlayedStanding(team, points, gf, ga) ==
    [team |-> team, played |-> 3, wins |-> points \div 3, draws |-> points % 3,
     losses |-> 3 - (points \div 3) - (points % 3), gf |-> gf, ga |-> ga, points |-> points]

\* the table of a group: its third entry has the given profile; in group B
\* the third entry is CAN, elsewhere the third team of the group's list; the
\* groups from G on have a table of three entries
ThirdTable(letter, codes, profile) ==
    LET order == IF letter = "B" THEN <<codes[2], codes[3], codes[1], codes[4]>> ELSE codes
        full == <<PlayedStanding(order[1], 9, 6, 1), PlayedStanding(order[2], 6, 4, 2),
                  PlayedStanding(order[3], profile[1], profile[2], profile[3]),
                  PlayedStanding(order[4], 0, 0, 6)>>
    IN IF Ord(letter) >= Ord("G") THEN SubSeq(full, 1, 3) ELSE full

FreeThirds == {ThirdGroupOrder[i] : i \in 1..NumFreeThirds}

InitThird ==
    /\ teams = TEAMS
    /\ groups = GROUPS
    /\ locked_results = EmptyDict
    /\ \E choice \in [FreeThirds -> DOMAIN ThirdProfiles] :
          third_tables =
              [g \in DOMAIN GROUPS |->
                  <<GROUPS[g][1],
                    ThirdTable(GROUPS[g][1], GROUPS[g][2],
                               ThirdProfiles[IF GROUPS[g][1] \in FreeThirds
                                             THEN choice[GROUPS[g][1]]
                                             ELSE (g % Len(ThirdProfiles)) + 1])>>]
    /\ third_pc = "call"
    /\ best_third = <<>>
    /\ AssignIdle /\ MatchIdle /\ GroupIdle /\ HashIdle /\ RandomIdle /\ TourIdle
    /\ MonteCarloIdle

GetBestThirdPlace ==
    /\ third_pc = "call"
    /\ best_third' = get_best_third_place(third_tables, teams)
    /\ third_pc' = "returned"
    /\ UNCHANGED <<third_tables, input_vars, assign_vars, match_vars, group_vars, process_vars,
                   random_vars, tour_vars, mc_vars>>

NextThird == GetBestThirdPlace

SpecThird == InitThird /\ [][NextThird]_vars

\* the key of a standing: points, goal difference, goals for, and the FIFA
\* ranking counted downwards
ThirdKey(s) == <<s.points, s.gf - s.ga, s.gf, -teams[s.team].fifa_ranking>>

\* the groups whose third-ranked entry is the standing s
GroupsWithThird(s) == {k \in DOMAIN third_tables : third_tables[k][2][3] = s}

\* C10: on 12 tables of at least 3 entries, get_best_third_place returns 8
\* standings, each the third entry of a group of its own, in descending
\* order of the key, and no third entry left out has a key above the key of
\* a returned one.
C10_BestEightThirds ==
    (third_pc = "returned" /\ Len(third_tables) = 12
        /\ \A k \in DOMAIN third_tables : Len(third_tables[k][2]) >= 3) =>
        /\ Len(best_third) = 8
        /\ \A i \in 1..8 : GroupsWithThird(best_third[i]) # {}
        /\ \A i, j \in 1..8 :
              i # j => GroupsWithThird(best_third[i]) \cap GroupsWithThird(best_third[j]) = {}
        /\ \A i, j \in 1..8 :
              i < j => ~TupleLess(ThirdKey(best_third[i]), ThirdKey(best_third[j]))
        /\ \A k \in DOMAIN third_tables :
              third_tables[k][2][3] \notin Range(best_third) =>
                  \A i \in 1..8 :
                      ~TupleLess(ThirdKey(best_third[i]), ThirdKey(third_tables[k][2][3]))

\* eight thirds were returned; CAN and KSA are both among them with the same
\* key, and a third entry left out has the points of the last one returned
C10_Witness ==
    /\ third_pc = "returned"
    /\ Len(best_third) = 8
    /\ \E i, j \in 1..8 :
          /\ best_third[i].team = "CAN" /\ best_third[j].team = "KSA"
          /\ ThirdKey(best_third[i]) = ThirdKey(best_third[j])
    /\ \E k \in DOMAIN third_tables :
          /\ Len(third_tables[k][2]) = 3
          /\ third_tables[k][2][3] \notin Range(best_third)
          /\ third_tables[k][2][3].points = best_third[8].points

====
